---- MODULE Spec2Model ----
\* Voxel building game (StarKnightt/MineCraft): the block store (useStore), the
\* key codec, the terrain generator, the Player controller's per-frame
\* movement integration with grid AABB collision, the Cubes observer and the
\* input mailboxes, as one state machine.
\*
\* Numbers.  The program computes in IEEE doubles; the model computes exactly
\* on a fixed-point grid on which every constant of the program is an integer:
\*   lengths    in 1/72000 m   (0.001 m = 72, 0.3 m = 21600, 0.5 m = 36000)
\*   times      in 1/600 s     (1/60 s = 10, 0.1 s = 60, 0.25 s = 150)
\*   velocities in 1/120 m/s   (gravity adds 5 per time unit, 5.5 m/s = 660)
\* so that a displacement is velocity * time with no rounding.  Frame times
\* are drawn from multiples of 1/600 s.
\*
\* fastPosKey's memo table is the table of the keys it caches: a cached key
\* never changes, so the table is not part of the state.
EXTENDS Integers, Sequences, FiniteSets, TLC

\* ------------------------------------------------------------------ units

Metre  == 72 * 1000
Second == 6 * 100
MPS    == Metre \div Second

Abs(a) == IF a < 0 THEN -a ELSE a
Min(a, b) == IF a <= b THEN a ELSE b
Max(a, b) == IF a >= b THEN a ELSE b

\* Math.floor and Math.ceil of a / b (b > 0), Math.round of a length
Floor(a, b) == a \div b
Ceil(a, b)  == -((-a) \div b)
Round(a)    == Floor(a + Metre \div 2, Metre)

\* ------------------------------------------------------------------ bounds

\* half-extent of the terrain footprint the model generates (the program
\* generates generateTerrain(SIZE))
WorldSize == 1
\* the session is followed up to this elapsed time (in 1/600 s)
MaxClock == 180
\* number of input events (keys, touches, clicks, store calls) in a session
MaxEvents == 2
\* frames of a session whose duration is not one of the nominal ones
MaxOddFrames == 1
\* the scenarios without store mutation are followed up to this elapsed time
LongClock == 1260
\* frames of such a scenario whose duration is not the nominal one
MaxOddLong == 2

\* ------------------------------------------------------------------ types

BLOCK_TYPES == <<"grass", "dirt", "stone", "wood", "glass">>
BlockType == {BLOCK_TYPES[i] : i \in 1..Len(BLOCK_TYPES)}

\* ------------------------------------------------------------------ key codec

Digits == <<"0", "1", "2", "3", "4", "5", "6", "7", "8", "9">>

RECURSIVE NatStr(_)
\* the decimal digits of a natural number, as a template literal prints them
NatStr(n) == IF n < 10 THEN <<Digits[n + 1]>>
             ELSE NatStr(n \div 10) \o <<Digits[(n % 10) + 1]>>

\* `${n}` that prints no sign
NumStrUnsigned(n) == NatStr(Abs(n))

\* `${n}` for an integer n
NumStr(n) == IF n < 0 THEN <<"-">> \o NatStr(-n) ELSE NatStr(n)

\* posKey(x, y, z) = `${x},${y},${z}`
posKey(x, y, z) == NumStr(x) \o <<",">> \o NumStr(y) \o <<",">> \o NumStr(z)

\* _keyCache: the nested x -> y -> z maps of fastPosKey, filled with the
\* template-literal keys of the cells the collision loop asks for
CacheXZ == -3..3
CacheY == -30..20
KeyCache == [x \in CacheXZ |-> [y \in CacheY |-> [z \in CacheXZ |-> posKey(x, y, z)]]]

\* fastPosKey(x, y, z): the cached key, or the key it caches
fastPosKey(x, y, z) ==
  IF x \in CacheXZ /\ y \in CacheY /\ z \in CacheXZ THEN KeyCache[x][y][z]
  ELSE posKey(x, y, z)

\* _keyCache.get(x)?.get(y)?.get(z) on the nested maps of table
Cached(table, x, y, z) ==
  /\ x \in DOMAIN table
  /\ y \in DOMAIN table[x]
  /\ z \in DOMAIN table[x][y]

\* a fastPosKey that files every row y of a column under the same map
fastPosKeyOneRow(table, x, y, z) ==
  LET hit == Cached(table, x, 0, z)
      k   == IF hit THEN table[x][0][z] ELSE posKey(x, y, z)
      ym  == IF x \in DOMAIN table THEN table[x] ELSE <<>>
      zm  == IF 0 \in DOMAIN ym THEN ym[0] ELSE <<>>
  IN [table |-> (x :> ((0 :> ((z :> k) @@ zm)) @@ ym)) @@ table,
      call |-> <<x, y, z>>, key |-> k, hit |-> hit]

\* fastPosKey(x, y, z) called when _keyCache holds table: the maps missing on
\* the way are created, the key is built and stored unless one is stored
\* already, and the stored key is returned
fastPosKeyIn(table, x, y, z) ==
  LET hit == Cached(table, x, y, z)
      k   == IF hit THEN table[x][y][z] ELSE posKey(x, y, z)
      ym  == IF x \in DOMAIN table THEN table[x] ELSE <<>>
      zm  == IF y \in DOMAIN ym THEN ym[y] ELSE <<>>
  IN [table |-> (x :> ((y :> ((z :> k) @@ zm)) @@ ym)) @@ table,
      call |-> <<x, y, z>>, key |-> k, hit |-> hit]

RECURSIVE Split(_)
\* key.split(','): the fields between commas
Split(s) ==
  IF \A i \in 1..Len(s) : s[i] # ","
  THEN <<s>>
  ELSE LET i == CHOOSE j \in 1..Len(s) : s[j] = "," /\ \A k \in 1..(j - 1) : s[k] # ","
       IN <<SubSeq(s, 1, i - 1)>> \o Split(SubSeq(s, i + 1, Len(s)))

DigitVal(c) == CHOOSE d \in 0..9 : Digits[d + 1] = c
IsDigit(c) == \E d \in 1..10 : Digits[d] = c

RECURSIVE NatVal(_)
NatVal(s) == IF Len(s) = 0 THEN 0
             ELSE 10 * NatVal(SubSeq(s, 1, Len(s) - 1)) + DigitVal(s[Len(s)])

\* Number(field) for a field over digits and "-"; "NaN" when it is no number
\* (Number("") is 0, Number(undefined) is NaN)
ToNumber(s) ==
  IF Len(s) = 0 THEN 0
  ELSE IF \A i \in 1..Len(s) : IsDigit(s[i]) THEN NatVal(s)
  ELSE IF s[1] = "-" /\ Len(s) > 1 /\ \A i \in 2..Len(s) : IsDigit(s[i])
       THEN -NatVal(SubSeq(s, 2, Len(s)))
  ELSE "NaN"

\* keyToPos(key) = [Number(parts[0]), Number(parts[1]), Number(parts[2])]
keyToPos(key) ==
  LET parts == Split(key)
      Part(i) == IF i <= Len(parts) THEN ToNumber(parts[i]) ELSE "NaN"
  IN <<Part(1), Part(2), Part(3)>>

\* ------------------------------------------------------------------ terrain

SIZE == 16

\* Math.floor(sin(0.15 x) * 2 + cos(0.15 z) * 2 + sin(0.1 (x + z)) * 1.5) for
\* x, z in -SIZE..SIZE, row x + SIZE + 1, column z + SIZE + 1
HeightTable ==
  << <<-3, -3, -3, -3, -3, -3, -2, -2, -2, -2, -2, -2, -2, -1, -1, -1, -1, -1, -1, -1, -2, -2, -2, -2, -2, -2, -3, -3, -3, -3, -3, -3, -3>>,
     <<-4, -4, -3, -3, -3, -3, -3, -3, -2, -2, -2, -2, -2, -2, -2, -2, -2, -2, -2, -2, -2, -2, -2, -2, -2, -2, -3, -3, -3, -3, -3, -3, -3>>,
     <<-4, -4, -4, -4, -3, -3, -3, -3, -3, -3, -2, -2, -2, -2, -2, -2, -2, -2, -2, -2, -2, -2, -2, -2, -2, -3, -3, -3, -3, -3, -3, -3, -3>>,
     <<-4, -4, -4, -4, -4, -4, -3, -3, -3, -3, -3, -2, -2, -2, -2, -2, -2, -2, -2, -2, -2, -2, -2, -2, -2, -3, -3, -3, -3, -3, -3, -3, -3>>,
     <<-4, -4, -4, -4, -4, -4, -4, -3, -3, -3, -3, -2, -2, -2, -2, -2, -2, -2, -2, -2, -2, -2, -2, -2, -2, -2, -3, -3, -3, -3, -3, -3, -3>>,
     <<-5, -5, -4, -4, -4, -4, -4, -3, -3, -3, -3, -3, -2, -2, -2, -2, -2, -2, -2, -2, -2, -2, -2, -2, -2, -2, -3, -3, -3, -3, -3, -3, -3>>,
     <<-5, -5, -5, -4, -4, -4, -4, -3, -3, -3, -3, -3, -2, -2, -2, -2, -2, -2, -2, -2, -2, -2, -2, -2, -2, -2, -2, -3, -3, -3, -3, -3, -3>>,
     <<-5, -5, -5, -4, -4, -4, -4, -3, -3, -3, -3, -2, -2, -2, -2, -2, -2, -2, -2, -1, -2, -2, -2, -2, -2, -2, -2, -2, -2, -3, -3, -3, -3>>,
     <<-5, -5, -5, -4, -4, -4, -4, -3, -3, -3, -3, -2, -2, -2, -2, -2, -1, -1, -1, -1, -1, -1, -1, -2, -2, -2, -2, -2, -2, -2, -3, -3, -3>>,
     <<-5, -5, -5, -4, -4, -4, -4, -3, -3, -3, -2, -2, -2, -2, -1, -1, -1, -1, -1, -1, -1, -1, -1, -1, -1, -1, -2, -2, -2, -2, -2, -2, -3>>,
     <<-5, -5, -4, -4, -4, -4, -3, -3, -3, -3, -2, -2, -2, -1, -1, -1, -1, -1, -1, -1, -1, -1, -1, -1, -1, -1, -1, -2, -2, -2, -2, -2, -2>>,
     <<-5, -4, -4, -4, -4, -4, -3, -3, -3, -2, -2, -2, -1, -1, -1, -1, -1, 0, 0, 0, 0, 0, 0, -1, -1, -1, -1, -1, -1, -2, -2, -2, -2>>,
     <<-4, -4, -4, -4, -4, -3, -3, -3, -2, -2, -2, -1, -1, -1, -1, 0, 0, 0, 0, 0, 0, 0, 0, 0, 0, 0, -1, -1, -1, -1, -1, -2, -2>>,
     <<-4, -4, -4, -4, -3, -3, -3, -2, -2, -2, -1, -1, -1, 0, 0, 0, 0, 0, 0, 0, 0, 0, 0, 0, 0, 0, 0, 0, -1, -1, -1, -1, -1>>,
     <<-4, -4, -4, -3, -3, -3, -2, -2, -2, -1, -1, -1, 0, 0, 0, 0, 1, 1, 1, 1, 1, 1, 1, 1, 0, 0, 0, 0, 0, 0, -1, -1, -1>>,
     <<-4, -4, -3, -3, -3, -2, -2, -2, -1, -1, -1, 0, 0, 0, 1, 1, 1, 1, 1, 1, 1, 1, 1, 1, 1, 1, 1, 0, 0, 0, 0, -1, -1>>,
     <<-3, -3, -3, -3, -2, -2, -2, -1, -1, 0, 0, 0, 1, 1, 1, 1, 2, 2, 2, 2, 2, 2, 2, 1, 1, 1, 1, 1, 0, 0, 0, 0, 0>>,
     <<-3, -3, -3, -2, -2, -2, -1, -1, 0, 0, 0, 1, 1, 1, 2, 2, 2, 2, 2, 2, 2, 2, 2, 2, 2, 1, 1, 1, 1, 1, 0, 0, 0>>,
     <<-3, -3, -2, -2, -2, -1, -1, 0, 0, 0, 1, 1, 1, 2, 2, 2, 2, 3, 3, 3, 3, 3, 2, 2, 2, 2, 2, 1, 1, 1, 1, 0, 0>>,
     <<-3, -2, -2, -2, -1, -1, 0, 0, 0, 1, 1, 2, 2, 2, 2, 3, 3, 3, 3, 3, 3, 3, 3, 3, 2, 2, 2, 2, 1, 1, 1, 1, 0>>,
     <<-2, -2, -2, -1, -1, 0, 0, 0, 1, 1, 2, 2, 2, 3, 3, 3, 3, 3, 3, 3, 3, 3, 3, 3, 3, 3, 2, 2, 2, 1, 1, 1, 1>>,
     <<-2, -2, -1, -1, -1, 0, 0, 1, 1, 2, 2, 2, 3, 3, 3, 3, 4, 4, 4, 4, 4, 4, 3, 3, 3, 3, 3, 2, 2, 2, 1, 1, 1>>,
     <<-2, -1, -1, -1, 0, 0, 1, 1, 1, 2, 2, 3, 3, 3, 4, 4, 4, 4, 4, 4, 4, 4, 4, 4, 3, 3, 3, 2, 2, 2, 1, 1, 1>>,
     <<-1, -1, -1, 0, 0, 0, 1, 1, 2, 2, 3, 3, 3, 4, 4, 4, 4, 4, 4, 4, 4, 4, 4, 4, 3, 3, 3, 3, 2, 2, 2, 1, 1>>,
     <<-1, -1, 0, 0, 0, 1, 1, 2, 2, 3, 3, 3, 4, 4, 4, 4, 4, 5, 5, 5, 4, 4, 4, 4, 4, 3, 3, 3, 2, 2, 2, 1, 1>>,
     <<-1, -1, 0, 0, 1, 1, 1, 2, 2, 3, 3, 3, 4, 4, 4, 5, 5, 5, 5, 5, 5, 4, 4, 4, 4, 3, 3, 3, 2, 2, 2, 1, 1>>,
     <<-1, 0, 0, 0, 1, 1, 2, 2, 3, 3, 3, 4, 4, 4, 4, 5, 5, 5, 5, 5, 5, 4, 4, 4, 4, 3, 3, 3, 2, 2, 1, 1, 1>>,
     <<-1, 0, 0, 0, 1, 1, 2, 2, 3, 3, 3, 4, 4, 4, 5, 5, 5, 5, 5, 5, 5, 4, 4, 4, 4, 3, 3, 3, 2, 2, 1, 1, 1>>,
     <<-1, 0, 0, 1, 1, 1, 2, 2, 3, 3, 4, 4, 4, 4, 5, 5, 5, 5, 5, 5, 5, 4, 4, 4, 4, 3, 3, 2, 2, 2, 1, 1, 0>>,
     <<-1, 0, 0, 1, 1, 1, 2, 2, 3, 3, 4, 4, 4, 4, 5, 5, 5, 5, 5, 5, 4, 4, 4, 4, 3, 3, 3, 2, 2, 1, 1, 1, 0>>,
     <<-1, 0, 0, 1, 1, 2, 2, 2, 3, 3, 4, 4, 4, 4, 5, 5, 5, 5, 5, 5, 4, 4, 4, 4, 3, 3, 2, 2, 2, 1, 1, 0, 0>>,
     <<-1, 0, 0, 1, 1, 1, 2, 2, 3, 3, 3, 4, 4, 4, 4, 5, 5, 5, 4, 4, 4, 4, 4, 3, 3, 3, 2, 2, 1, 1, 0, 0, 0>>,
     <<-1, 0, 0, 1, 1, 1, 2, 2, 3, 3, 3, 4, 4, 4, 4, 4, 4, 4, 4, 4, 4, 4, 3, 3, 3, 2, 2, 1, 1, 0, 0, 0, -1>> >>

Height(x, z) == HeightTable[x + SIZE + 1][z + SIZE + 1]

\* a layering with a single row of dirt
LayerTypeThin(y, height) == IF y = height THEN "grass"
                            ELSE IF y >= height - 1 THEN "dirt"
                            ELSE "stone"

LayerType(y, height) == IF y = height THEN "grass"
                        ELSE IF y >= height - 2 THEN "dirt"
                        ELSE "stone"

\* the tree anchors
Trees == <<<<3, 0, 4>>, <<-5, 0, -7>>, <<10, 0, -3>>, <<-8, 0, 12>>, <<6, 0, -10>>>>

\* the cells the heightmap loop of generateTerrain fills, for a footprint of
\* half-extent size: every y from the floor -3 up to the column's height
TerrainCells(size) ==
  UNION {{<<x, y, z>> : y \in -3..Height(x, z)} : x \in -size..size, z \in -size..size}

HeightMap(size) ==
  LET cells == TerrainCells(size)
      keys  == {posKey(c[1], c[2], c[3]) : c \in cells}
      CellOf(k) == CHOOSE c \in cells : posKey(c[1], c[2], c[3]) = k
  IN [k \in keys |->
        LET c == CellOf(k) IN LayerType(c[2], Height(c[1], c[3]))]

\* a groundY that scans upwards from the floor
GroundYLowest(blocks, tx, tz) ==
  LET ys == {y \in -3..10 : posKey(tx, y, tz) \in DOMAIN blocks}
  IN IF ys = {} THEN 10 ELSE CHOOSE y \in ys : \A w \in ys : w >= y

\* groundY of a tree: the first occupied y scanning 10 down to -3, else 10
GroundY(blocks, tx, tz) ==
  LET ys == {y \in -3..10 : posKey(tx, y, tz) \in DOMAIN blocks}
  IN IF ys = {} THEN 10 ELSE CHOOSE y \in ys : \A w \in ys : w <= y

RECURSIVE PlantTrees(_, _)
PlantTrees(blocks, i) ==
  IF i > Len(Trees) THEN blocks
  ELSE LET tx == Trees[i][1]
           tz == Trees[i][3]
           g  == GroundY(blocks, tx, tz)
           trunk == {posKey(tx, g + dy, tz) : dy \in 1..4}
       IN PlantTrees([k \in DOMAIN blocks \cup trunk |->
                        IF k \in trunk THEN "wood" ELSE blocks[k]], i + 1)

generateTerrain(size) == PlantTrees(HeightMap(size), 1)

\* the world of a session
Terrain == generateTerrain(WorldSize)

\* ------------------------------------------------------------------ constants

SPEED      == (55 * MPS) \div 10
SneakSpeed == (SPEED * 35) \div 100
JUMP_VEL   == 8 * MPS
GRAVITY    == (-25 * MPS) \div Second
MaxFall    == -40 * MPS
EYE_HEIGHT == (15 * Metre) \div 10
PLAYER_W   == (6 * Metre) \div 10
PLAYER_H   == (17 * Metre) \div 10
HALF       == PLAYER_W \div 2
RESPAWN_Y  == -20 * Metre
SPAWN_POS  == <<0, 15 * Metre, 0>>
SUB_DT     == Second \div 60
MAX_DT     == Second \div 10
EPS        == Metre \div 1000
HalfBlock  == Metre \div 2
GroundProbe == (2 * Metre) \div 100
StoreThrottle == Second \div 4
FootstepGap == Second \div 5

NoSounds == <<>>

\* ------------------------------------------------------------------ store

\* overlapsPlayer(bx, by, bz, pp): the store's test of a cell against the
\* player position it holds
overlapsPlayer(bx, by, bz, pp) ==
  LET playerMinY == pp[2] - (9 * Metre) \div 10
      playerMaxY == pp[2] + (9 * Metre) \div 10
      blockMinY  == by * Metre - HalfBlock
      blockMaxY  == by * Metre + HalfBlock
  IN IF blockMaxY <= playerMinY \/ blockMinY >= playerMaxY THEN FALSE
     ELSE /\ Abs(bx * Metre - pp[1]) < (8 * Metre) \div 10
          /\ Abs(bz * Metre - pp[3]) < (8 * Metre) \div 10

\* A store value: [blocks, blockVersion, activeBlockType, playerPosition] and
\* the sounds played so far by the running handler.

\* addBlock that stores the block without raising blockVersion
addBlockSilent(st, pos) ==
  LET key == posKey(pos[1], pos[2], pos[3])
  IN IF key \in DOMAIN st.blocks THEN st
     ELSE IF overlapsPlayer(pos[1], pos[2], pos[3], st.playerPosition) THEN st
     ELSE [st EXCEPT
             !.blocks = [k \in DOMAIN st.blocks \cup {key} |->
                           IF k = key THEN st.activeBlockType ELSE st.blocks[k]],
             !.sounds = Append(st.sounds, "place")]

\* addBlock that plays the place sound before it checks the cell
addBlockLoud(st, pos) ==
  LET key == posKey(pos[1], pos[2], pos[3])
      heard == [st EXCEPT !.sounds = Append(st.sounds, "place")]
  IN IF key \in DOMAIN st.blocks THEN heard
     ELSE IF overlapsPlayer(pos[1], pos[2], pos[3], st.playerPosition) THEN heard
     ELSE [heard EXCEPT
             !.blocks = [k \in DOMAIN st.blocks \cup {key} |->
                           IF k = key THEN st.activeBlockType ELSE st.blocks[k]],
             !.blockVersion = st.blockVersion + 1]

\* addBlock([x, y, z])
addBlock(st, pos) ==
  LET key == posKey(pos[1], pos[2], pos[3])
  IN IF key \in DOMAIN st.blocks THEN st
     ELSE IF overlapsPlayer(pos[1], pos[2], pos[3], st.playerPosition) THEN st
     ELSE [st EXCEPT
             !.blocks = [k \in DOMAIN st.blocks \cup {key} |->
                           IF k = key THEN st.activeBlockType ELSE st.blocks[k]],
             !.blockVersion = st.blockVersion + 1,
             !.sounds = Append(st.sounds, "place")]

\* removeBlock that also clears the cell above the removed one
removeBlockColumn(st, pos) ==
  LET key == posKey(pos[1], pos[2], pos[3])
      above == posKey(pos[1], pos[2] + 1, pos[3])
  IN IF key \notin DOMAIN st.blocks THEN st
     ELSE [st EXCEPT
             !.blocks = [k \in DOMAIN st.blocks \ {key, above} |-> st.blocks[k]],
             !.blockVersion = st.blockVersion + 1,
             !.sounds = Append(st.sounds, "break")]

\* removeBlock that raises blockVersion even when the cell is empty
removeBlockAlwaysBump(st, pos) ==
  LET key == posKey(pos[1], pos[2], pos[3])
  IN [st EXCEPT
        !.blocks = [k \in DOMAIN st.blocks \ {key} |-> st.blocks[k]],
        !.blockVersion = st.blockVersion + 1,
        !.sounds = IF key \in DOMAIN st.blocks THEN Append(st.sounds, "break")
                   ELSE st.sounds]

\* removeBlock([x, y, z])
removeBlock(st, pos) ==
  LET key == posKey(pos[1], pos[2], pos[3])
  IN IF key \notin DOMAIN st.blocks THEN st
     ELSE [st EXCEPT
             !.blocks = [k \in DOMAIN st.blocks \ {key} |-> st.blocks[k]],
             !.blockVersion = st.blockVersion + 1,
             !.sounds = Append(st.sounds, "break")]

\* dx*dx + dy*dy + dz*dz > 0.25, computed without leaving 32 bits
MovedFar(dx, dy, dz) ==
  LET r == Metre \div 2
  IN IF Abs(dx) > r \/ Abs(dy) > r \/ Abs(dz) > r THEN TRUE
     ELSE dx * dx > (r * r - dy * dy) - dz * dz

\* a setPlayerPosition that also counts as a block change
setPlayerPositionDirty(st, pos) ==
  [st EXCEPT !.playerPosition = pos, !.blockVersion = @ + 1]

\* setPlayerPosition(pos)
setPlayerPosition(st, pos) ==
  LET prev == st.playerPosition
  IN IF MovedFar(pos[1] - prev[1], pos[2] - prev[2], pos[3] - prev[3])
     THEN [st EXCEPT !.playerPosition = pos]
     ELSE st

\* setActiveBlockType(type)
setActiveBlockType(st, type) == [st EXCEPT !.activeBlockType = type]

\* ------------------------------------------------------------------ Cubes

\* groupByType(blocks): the positions of each type (the order of a group is
\* the insertion order of the keys; only membership is modelled)
groupByType(blocks) ==
  [t \in BlockType |-> {keyToPos(k) : k \in {j \in DOMAIN blocks : blocks[j] = t}}]

\* ------------------------------------------------------------------ collision

\* a collides whose comparisons and candidate range include the faces
collidesClosed(minX, minY, minZ, maxX, maxY, maxZ, blocks) ==
  LET bx0 == Ceil(minX - HalfBlock, Metre)
      bx1 == Floor(maxX + HalfBlock, Metre)
      by0 == Ceil(minY - HalfBlock, Metre)
      by1 == Floor(maxY + HalfBlock, Metre)
      bz0 == Ceil(minZ - HalfBlock, Metre)
      bz1 == Floor(maxZ + HalfBlock, Metre)
  IN \E bx \in bx0..bx1, by \in by0..by1, bz \in bz0..bz1 :
       /\ fastPosKey(bx, by, bz) \in DOMAIN blocks
       /\ maxX >= bx * Metre - HalfBlock /\ minX <= bx * Metre + HalfBlock
       /\ maxY >= by * Metre - HalfBlock /\ minY <= by * Metre + HalfBlock
       /\ maxZ >= bz * Metre - HalfBlock /\ minZ <= bz * Metre + HalfBlock

\* collides(minX, minY, minZ, maxX, maxY, maxZ, blocks)
collides(minX, minY, minZ, maxX, maxY, maxZ, blocks) ==
  LET bx0 == Ceil(minX - HalfBlock + EPS, Metre)
      bx1 == Floor(maxX + HalfBlock - EPS, Metre)
      by0 == Ceil(minY - HalfBlock + EPS, Metre)
      by1 == Floor(maxY + HalfBlock - EPS, Metre)
      bz0 == Ceil(minZ - HalfBlock + EPS, Metre)
      bz1 == Floor(maxZ + HalfBlock - EPS, Metre)
  IN \E bx \in bx0..bx1, by \in by0..by1, bz \in bz0..bz1 :
       /\ fastPosKey(bx, by, bz) \in DOMAIN blocks
       /\ maxX > bx * Metre - HalfBlock /\ minX < bx * Metre + HalfBlock
       /\ maxY > by * Metre - HalfBlock /\ minY < by * Metre + HalfBlock
       /\ maxZ > bz * Metre - HalfBlock /\ minZ < bz * Metre + HalfBlock

\* the player's AABB at feet position (x, y, z) against the store
PlayerCollides(x, y, z, blocks) ==
  collides(x - HALF, y, z - HALF, x + HALF, y + PLAYER_H, z + HALF, blocks)

RECURSIVE SnapUp(_, _, _, _)
\* while (collides(...at py...)) py += 1
SnapUp(x, y, z, blocks) ==
  IF PlayerCollides(x, y, z, blocks) THEN SnapUp(x, y + Metre, z, blocks) ELSE y

\* A body value: [px, py, pz, vy, onGround] and the frame's vx, vz.

\* the Y axis of one sub-step
MoveY(b, step, blocks) ==
  LET newY == b.py + b.vy * step
  IN IF PlayerCollides(b.px, newY, b.pz, blocks)
     THEN IF b.vy <= 0
          THEN LET byTest == Ceil(newY - HalfBlock + EPS, Metre)
               IN [b EXCEPT !.py = SnapUp(b.px, byTest * Metre + HalfBlock, b.pz, blocks),
                            !.onGround = TRUE,
                            !.vy = 0]
          ELSE [b EXCEPT !.vy = 0]
     ELSE [b EXCEPT !.py = newY,
                    !.onGround = collides(b.px - HALF, newY - GroundProbe, b.pz - HALF,
                                          b.px + HALF, newY + GroundProbe, b.pz + HALF,
                                          blocks)]

\* the X axis of one sub-step
MoveX(b, step, blocks) ==
  LET newX == b.px + b.vx * step
  IN IF PlayerCollides(newX, b.py, b.pz, blocks)
     THEN [b EXCEPT !.vx = 0]
     ELSE [b EXCEPT !.px = newX]

\* the Z axis of one sub-step
MoveZ(b, step, blocks) ==
  LET newZ == b.pz + b.vz * step
  IN IF PlayerCollides(b.px, b.py, newZ, blocks)
     THEN [b EXCEPT !.vz = 0]
     ELSE [b EXCEPT !.pz = newZ]

\* a sub-step that resolves X and Z before Y
SubStepYLast(b, step, blocks) ==
  LET afterX == MoveX(b, step, blocks)
      afterZ == MoveZ(afterX, step, blocks)
  IN MoveY(afterZ, step, blocks)

\* one sub-step: Y, then X, then Z
SubStep(b, step, blocks) ==
  LET afterY == MoveY(b, step, blocks)
      afterX == MoveX(afterY, step, blocks)
  IN MoveZ(afterX, step, blocks)

\* a sub-step loop whose body never runs
SubStepsNone(b, remaining, blocks) == b

\* a sub-step loop that takes the whole frame time as one step
SubStepsWhole(b, remaining, blocks) ==
  IF remaining * 10000 > Second
  THEN SubStep([b EXCEPT !.steps = Append(b.steps, remaining)], remaining, blocks)
  ELSE b

RECURSIVE SubStepsFalling(_, _, _)
\* a sub-step loop that adds gravity in every sub-step
SubStepsFalling(b, remaining, blocks) ==
  IF remaining * 10000 > Second
  THEN LET step == Min(remaining, SUB_DT)
           run  == [b EXCEPT !.steps = Append(b.steps, step),
                             !.vy = Max(b.vy + GRAVITY * step, MaxFall)]
       IN CHOOSE r \in {SubStepsFalling(next, remaining - step, blocks) :
                          next \in {SubStep(run, step, blocks)}} : TRUE
  ELSE b

RECURSIVE SubSteps(_, _, _)
\* while (remaining > 0.0001) { step = min(remaining, SUB_DT); remaining -= step; ... }
SubSteps(b, remaining, blocks) ==
  IF remaining * 10000 > Second
  THEN LET step == Min(remaining, SUB_DT)
           run  == [b EXCEPT !.steps = Append(b.steps, step)]
       IN CHOOSE r \in {SubSteps(next, remaining - step, blocks) :
                          next \in {SubStep(run, step, blocks)}} : TRUE
  ELSE b

\* ------------------------------------------------------------------ state

VARIABLES
  blocks,           \* store: key -> block type (the occupied cells)
  blockVersion,     \* store: change counter
  activeBlockType,  \* store: type placed by addBlock
  playerPosition,   \* store: the throttled copy of the feet position
  px, py, pz,       \* Player: feet position
  vy,               \* Player: vertical velocity
  onGround,         \* Player: Grounded flag
  lastStoreUpdate,  \* Player: clock value of the last setPlayerPosition call
  clock,            \* state.clock.elapsedTime
  camPos,           \* camera.position
  cam,              \* camera orientation: yaw and pitch in quarter turns
  keys,             \* useKeyboard: keys.current
  held,             \* the keyboard: the mapped keys that are physically down
  mobileKeys,       \* MobileControls: mobileKeys
  mobileLook,       \* MobileControls: mobileLook, <<dx, dy>> in quarter turns
  mobileAction,     \* MobileControls: mobileAction.current
  isMobile,         \* touch device, fixed for the session
  groups,           \* Cubes: the memoised groupByType result
  groupsVersion,    \* Cubes: the blockVersion the memo was computed for
  sounds,           \* audio: the sounds played by the last handler
  lastFootstep,     \* audio: time of the last footstep sound
  nEvents,          \* number of input events so far
  nOdd,             \* number of frames of an odd duration so far
  codec,            \* the key codec applied to two positions: [in, keys, out]
  cache,            \* _keyCache and the last fastPosKey call: [table, call, key, hit]
  sub               \* the movement of a frame applied to a body: [blocks, b, dt, out]

storeVars  == <<blocks, blockVersion, activeBlockType, playerPosition>>
cubesVars  == <<groups, groupsVersion>>
bodyVars   == <<px, py, pz, vy, onGround, lastStoreUpdate>>
frameVars  == <<clock, camPos, lastFootstep, nOdd>>
inputVars  == <<keys, held, mobileKeys, mobileLook, mobileAction>>
vars == <<blocks, blockVersion, activeBlockType, playerPosition, px, py, pz, vy,
          onGround, lastStoreUpdate, clock, camPos, cam, keys, held, mobileKeys,
          mobileLook, mobileAction, isMobile, groups, groupsVersion, sounds,
          lastFootstep, nEvents, nOdd, codec, cache, sub>>

KeyActions == {"moveForward", "moveBackward", "moveLeft", "moveRight", "jump", "sneak"}

\* createInitialKeys()
createInitialKeys == [a \in KeyActions |-> FALSE]

\* the store as one value, with no sound played yet
StoreNow == [blocks |-> blocks, blockVersion |-> blockVersion,
             activeBlockType |-> activeBlockType,
             playerPosition |-> playerPosition, sounds |-> NoSounds]

\* Cubes re-renders when the blockVersion it subscribes to has changed, and
\* recomputes its memo then
CubesRender(st) ==
  IF st.blockVersion # groupsVersion
  THEN groups' = groupByType(st.blocks) /\ groupsVersion' = st.blockVersion
  ELSE UNCHANGED cubesVars

\* a handler leaves the store as st; subscribers react before the next event
Commit(st) ==
  /\ blocks' = st.blocks
  /\ blockVersion' = st.blockVersion
  /\ activeBlockType' = st.activeBlockType
  /\ playerPosition' = st.playerPosition
  /\ CubesRender(st)

\* the codec has been applied to nothing
NoCodec == [in |-> <<>>, keys |-> <<>>, out |-> <<>>]

\* const _keyCache = new Map(): no entry, and fastPosKey not called yet
NoCache == [table |-> <<>>, call |-> <<>>, key |-> <<>>, hit |-> FALSE]

\* no movement has been singled out
NoSub == [blocks |-> <<>>, b |-> <<>>, dt |-> 0, out |-> <<>>]

InitWorld ==
  /\ blocks = Terrain
  /\ blockVersion = 0
  /\ activeBlockType = "grass"
  /\ playerPosition = <<0, 10 * Metre, 0>>
  /\ px = 0 /\ py = 15 * Metre /\ pz = 0
  /\ vy = 0
  /\ onGround = FALSE
  /\ lastStoreUpdate = 0
  /\ clock = 0
  /\ camPos = <<0, 15 * Metre, 0>>
  /\ cam = [yaw |-> 0, pitch |-> 0]
  /\ keys = createInitialKeys
  /\ held = {}
  /\ mobileKeys = createInitialKeys
  /\ mobileLook = <<0, 0>>
  /\ mobileAction = "null"
  /\ isMobile \in BOOLEAN
  /\ groups = groupByType(Terrain)
  /\ groupsVersion = 0
  /\ sounds = NoSounds
  /\ lastFootstep = 0
  /\ nEvents = 0
  /\ nOdd = 0

Init == InitWorld /\ codec = NoCodec /\ cache = NoCache /\ sub = NoSub

\* ------------------------------------------------------------------ camera

\* _fwd and _rgt (x, z) for yaw 0..3 quarter turns; the pitch does not change
\* them
FwdXZ == <<<<0, -1>>, <<-1, 0>>, <<0, 1>>, <<1, 0>>>>
RgtXZ == <<<<1, 0>>, <<0, -1>>, <<-1, 0>>, <<0, 1>>>>

\* camera.getWorldDirection
WorldDirection(c) ==
  IF c.pitch = 0 THEN <<FwdXZ[c.yaw + 1][1], 0, FwdXZ[c.yaw + 1][2]>>
  ELSE <<0, c.pitch, 0>>

\* euler.y -= dx * s; euler.x -= dy * s, clamped to a quarter turn up or down
ApplyLook(c, look) ==
  [yaw |-> (c.yaw - look[1]) % 4,
   pitch |-> Max(-1, Min(1, c.pitch - look[2]))]

\* ------------------------------------------------------------------ frame

\* the keyboard flags taken alone
KeyboardKeys == keys

\* step 0: the merged intent
MergedKeys == [a \in KeyActions |-> keys[a] \/ mobileKeys[a]]

\* step 0: the camera after the pending mobile look
CamAfterLook ==
  IF isMobile /\ mobileLook # <<0, 0>> THEN ApplyLook(cam, mobileLook) ELSE cam

\* step 0b: the sampled grid ray, d = 0, 0.15, ... < 5
RayStep == (15 * Metre) \div 100
RayLast == (5 * Metre - 1) \div RayStep

RayKey(origin, dir, i) ==
  posKey(Round(origin[1] + dir[1] * i * RayStep),
         Round(origin[2] + dir[2] * i * RayStep),
         Round(origin[3] + dir[3] * i * RayStep))

\* a mobile action whose place targets the cell that was hit
MobileActionOnHit(st, action, origin, dir) ==
  LET hits == {i \in 0..RayLast : RayKey(origin, dir, i) \in DOMAIN st.blocks}
  IN IF action = "null" \/ hits = {} THEN st
     ELSE LET h == CHOOSE i \in hits : \A j \in hits : i <= j
          IN IF action = "break" THEN removeBlock(st, keyToPos(RayKey(origin, dir, h)))
             ELSE addBlock(st, keyToPos(RayKey(origin, dir, h)))

\* step 0b: the store after the pending mobile action
MobileActionResult(st, action, origin, dir) ==
  LET hits == {i \in 0..RayLast : RayKey(origin, dir, i) \in DOMAIN st.blocks}
  IN IF action = "null" \/ hits = {} THEN st
     ELSE LET h == CHOOSE i \in hits : \A j \in hits : i <= j
          IN IF action = "break" THEN removeBlock(st, keyToPos(RayKey(origin, dir, h)))
             ELSE IF action = "place" /\ h > 0
                  THEN addBlock(st, keyToPos(RayKey(origin, dir, h - 1)))
             ELSE st

\* a frame start that jumps whenever the jump input is held
BodyStartAirJump(dt, c, k) ==
  LET speed == IF k["sneak"] THEN SneakSpeed ELSE SPEED
      inputFwd   == (IF k["moveForward"] THEN 1 ELSE 0) - (IF k["moveBackward"] THEN 1 ELSE 0)
      inputRight == (IF k["moveRight"] THEN 1 ELSE 0) - (IF k["moveLeft"] THEN 1 ELSE 0)
      fwd == FwdXZ[c.yaw + 1]
      rgt == RgtXZ[c.yaw + 1]
      v1 == (IF k["jump"] THEN JUMP_VEL ELSE vy) + GRAVITY * dt
  IN [px |-> px, py |-> py, pz |-> pz,
      vy |-> IF v1 < MaxFall THEN MaxFall ELSE v1,
      onGround |-> IF k["jump"] THEN FALSE ELSE onGround,
      vx |-> (fwd[1] * inputFwd + rgt[1] * inputRight) * speed,
      vz |-> (fwd[2] * inputFwd + rgt[2] * inputRight) * speed,
      steps |-> <<>>]

\* steps 1 and 2: the body at the start of the sub-step loop; steps lists the
\* durations of the sub-steps run so far
BodyStart(dt, c, k) ==
  LET speed == IF k["sneak"] THEN SneakSpeed ELSE SPEED
      inputFwd   == (IF k["moveForward"] THEN 1 ELSE 0) - (IF k["moveBackward"] THEN 1 ELSE 0)
      inputRight == (IF k["moveRight"] THEN 1 ELSE 0) - (IF k["moveLeft"] THEN 1 ELSE 0)
      fwd == FwdXZ[c.yaw + 1]
      rgt == RgtXZ[c.yaw + 1]
      jumps == k["jump"] /\ onGround
      v0 == IF jumps THEN JUMP_VEL ELSE vy
      v1 == v0 + GRAVITY * dt
  IN [px |-> px, py |-> py, pz |-> pz,
      vy |-> IF v1 < MaxFall THEN MaxFall ELSE v1,
      onGround |-> IF jumps THEN FALSE ELSE onGround,
      vx |-> (fwd[1] * inputFwd + rgt[1] * inputRight) * speed,
      vz |-> (fwd[2] * inputFwd + rgt[2] * inputRight) * speed,
      steps |-> <<>>]

\* step 3: the body when the movement integration has finished
BodyAfterMove(rawDt, bl) ==
  LET dt == Min(rawDt, MAX_DT)
      start == BodyStart(dt, CamAfterLook, MergedKeys)
  IN SubSteps(start, dt, bl)

\* the respawn check that keeps the falling velocity
RespawnKeepsVelocity(b) ==
  IF b.py < RESPAWN_Y
  THEN [b EXCEPT !.px = SPAWN_POS[1], !.py = SPAWN_POS[2], !.pz = SPAWN_POS[3],
                 !.onGround = FALSE]
  ELSE b

\* a respawn that lifts the player without moving it back over the spawn
RespawnInPlace(b) ==
  IF b.py < RESPAWN_Y
  THEN [b EXCEPT !.py = SPAWN_POS[2], !.vy = 0, !.onGround = FALSE]
  ELSE b

\* step 4: the respawn check
Respawn(b) ==
  IF b.py < RESPAWN_Y
  THEN [b EXCEPT !.px = SPAWN_POS[1], !.py = SPAWN_POS[2], !.pz = SPAWN_POS[3],
                 !.vy = 0, !.onGround = FALSE]
  ELSE b

\* a footstep test that ignores the ground flag
FootstepDueAirborne(b) == Abs(b.vx) * 2 > MPS \/ Abs(b.vz) * 2 > MPS

\* step 5: the footstep condition
FootstepDue(b) == b.onGround /\ (Abs(b.vx) * 2 > MPS \/ Abs(b.vz) * 2 > MPS)

\* useFrame((state, rawDt) => ...); st1 is the store after the mobile action
\* and mid the body when the sub-step loop has finished
Frame(rawDt) ==
  \E st1 \in {MobileActionResult(StoreNow, mobileAction, camPos,
                                 WorldDirection(CamAfterLook))} :
  \E mid \in {BodyAfterMove(rawDt, st1.blocks)} :
  \E b \in {Respawn(mid)} :
  LET jumps == MergedKeys["jump"] /\ onGround
      now  == clock + rawDt
      step == FootstepDue(b) /\ ~(now - lastFootstep < FootstepGap)
      st2  == IF now - lastStoreUpdate > StoreThrottle
              THEN setPlayerPosition(st1, <<b.px, b.py, b.pz>>)
              ELSE st1
  IN /\ cam' = CamAfterLook
     /\ mobileLook' = IF isMobile THEN <<0, 0>> ELSE mobileLook
     /\ mobileAction' = "null"
     /\ px' = b.px /\ py' = b.py /\ pz' = b.pz
     /\ vy' = b.vy
     /\ onGround' = b.onGround
     /\ sounds' = st1.sounds
                  \o (IF jumps THEN <<"jump">> ELSE <<>>)
                  \o (IF mid.py < RESPAWN_Y THEN <<"respawn">> ELSE <<>>)
                  \o (IF step THEN <<"footstep">> ELSE <<>>)
     /\ lastFootstep' = IF step THEN now ELSE lastFootstep
     /\ camPos' = <<b.px, b.py + EYE_HEIGHT, b.pz>>
     /\ clock' = now
     /\ lastStoreUpdate' = IF now - lastStoreUpdate > StoreThrottle THEN now
                           ELSE lastStoreUpdate
     /\ Commit(st2)
     /\ UNCHANGED <<keys, held, mobileKeys, isMobile, nEvents, codec, cache, sub>>

\* ------------------------------------------------------------------ input events

CODE_TO_ACTION ==
  [c \in {"KeyW", "KeyS", "KeyA", "KeyD", "Space", "ShiftLeft", "ShiftRight"} |->
     CASE c = "KeyW" -> "moveForward"
       [] c = "KeyS" -> "moveBackward"
       [] c = "KeyA" -> "moveLeft"
       [] c = "KeyD" -> "moveRight"
       [] c = "Space" -> "jump"
       [] c = "ShiftLeft" -> "sneak"
       [] c = "ShiftRight" -> "sneak"]

DIGIT_TO_INDEX ==
  [c \in {"Digit1", "Digit2", "Digit3", "Digit4", "Digit5", "Digit6", "Digit7",
          "Digit8", "Digit9"} |->
     CASE c = "Digit1" -> 0 [] c = "Digit2" -> 1 [] c = "Digit3" -> 2
       [] c = "Digit4" -> 3 [] c = "Digit5" -> 4 [] c = "Digit6" -> 5
       [] c = "Digit7" -> 6 [] c = "Digit8" -> 7 [] c = "Digit9" -> 8]

\* Player.onDigit(idx)
onDigit(st, idx) ==
  IF idx < Len(BLOCK_TYPES) THEN setActiveBlockType(st, BLOCK_TYPES[idx + 1]) ELSE st

\* an input event is counted, and plays the sounds of its handler; a session
\* has fewer than max events
EventWithin(st, max) ==
  /\ nEvents < max
  /\ \E s \in {st} :
       /\ nEvents' = nEvents + 1
       /\ sounds' = s.sounds
       /\ Commit(s)
       /\ UNCHANGED <<codec, cache, sub>>

Event(st) == EventWithin(st, MaxEvents)

\* useKeyboard.onDown(e): the key e.code goes down, or repeats while down
onDown(code, max) ==
  /\ keys' = IF code \in DOMAIN CODE_TO_ACTION
             THEN [keys EXCEPT ![CODE_TO_ACTION[code]] = TRUE]
             ELSE keys
  /\ held' = IF code \in DOMAIN CODE_TO_ACTION THEN held \cup {code} ELSE held
  /\ EventWithin(IF code \notin DOMAIN CODE_TO_ACTION /\ code \in DOMAIN DIGIT_TO_INDEX
                 THEN onDigit(StoreNow, DIGIT_TO_INDEX[code])
                 ELSE StoreNow, max)
  /\ UNCHANGED <<bodyVars, frameVars, cam, mobileKeys, mobileLook, mobileAction, isMobile>>

KeyDown(code) == onDown(code, MaxEvents)

\* useKeyboard.onUp(e): the key e.code goes up
onUp(code, max) ==
  /\ keys' = IF code \in DOMAIN CODE_TO_ACTION
             THEN [keys EXCEPT ![CODE_TO_ACTION[code]] = FALSE]
             ELSE keys
  /\ held' = held \ {code}
  /\ EventWithin(StoreNow, max)
  /\ UNCHANGED <<bodyVars, frameVars, cam, mobileKeys, mobileLook, mobileAction, isMobile>>

KeyUp(code) == onUp(code, MaxEvents)

\* HUD.handleSlotClick(type) and the mobile hotbar slot
HudClick(type) ==
  /\ Event(setActiveBlockType(StoreNow, type))
  /\ UNCHANGED <<bodyVars, frameVars, cam, inputVars, isMobile>>

\* PointerLockControls (desktop only): the mouse turns the camera
MouseLook(look) ==
  /\ ~isMobile
  /\ cam' = ApplyLook(cam, look)
  /\ Event(StoreNow)
  /\ UNCHANGED <<bodyVars, frameVars, inputVars, isMobile>>

\* MobileControls.updateJoystick with the knob at (nx, ny) (joystick start
\* and move), threshold 0.3
JoystickTouch(nx, ny) ==
  /\ isMobile
  /\ mobileKeys' = [mobileKeys EXCEPT !["moveForward"] = ny * 10 < -3,
                                      !["moveBackward"] = ny * 10 > 3,
                                      !["moveLeft"] = nx * 10 < -3,
                                      !["moveRight"] = nx * 10 > 3]
  /\ Event(StoreNow)
  /\ UNCHANGED <<bodyVars, frameVars, cam, keys, held, mobileLook, mobileAction, isMobile>>

\* MobileControls.handleJoystickEnd
JoystickEnd ==
  /\ isMobile
  /\ mobileKeys' = [mobileKeys EXCEPT !["moveForward"] = FALSE,
                                      !["moveBackward"] = FALSE,
                                      !["moveLeft"] = FALSE,
                                      !["moveRight"] = FALSE]
  /\ Event(StoreNow)
  /\ UNCHANGED <<bodyVars, frameVars, cam, keys, held, mobileLook, mobileAction, isMobile>>

\* MobileControls.handleJumpStart / handleJumpEnd
JumpButton(down) ==
  /\ isMobile
  /\ mobileKeys' = [mobileKeys EXCEPT !["jump"] = down]
  /\ Event(StoreNow)
  /\ UNCHANGED <<bodyVars, frameVars, cam, keys, held, mobileLook, mobileAction, isMobile>>

\* MobileControls.handleLookMove: the drag accumulates until a frame
\* consumes it
LookMove(look) ==
  /\ isMobile
  /\ mobileLook' = <<mobileLook[1] + look[1], mobileLook[2] + look[2]>>
  /\ Event(StoreNow)
  /\ UNCHANGED <<bodyVars, frameVars, cam, keys, held, mobileKeys, mobileAction, isMobile>>

\* the Place and Break buttons
ActionButton(action) ==
  /\ isMobile
  /\ mobileAction' = action
  /\ Event(StoreNow)
  /\ UNCHANGED <<bodyVars, frameVars, cam, keys, held, mobileKeys, mobileLook, isMobile>>

\* ------------------------------------------------------------------ pointer

MAX_INTERACT_DIST == 5 * Metre

\* the cells Cubes draws
DrawnCells == UNION {groups[t] : t \in BlockType}

\* the distance from the camera to the face of cell c that the pointer ray
\* (from the camera, along its direction) enters; -1 when the ray misses c
FaceDistance(c, origin, dir) ==
  LET lateral == \A i \in 1..3 : dir[i] = 0 => Abs(origin[i] - c[i] * Metre) < HalfBlock
      a == CHOOSE i \in 1..3 : dir[i] # 0
      t == dir[a] * (c[a] * Metre - origin[a]) - HalfBlock
  IN IF lateral /\ t >= 0 THEN t ELSE -1

\* the nearest drawn cell under the pointer, as a set (empty when none)
PointedCell(origin, dir) ==
  LET hit == {c \in DrawnCells : FaceDistance(c, origin, dir) >= 0}
  IN {c \in hit : \A d \in hit : FaceDistance(c, origin, dir) <= FaceDistance(d, origin, dir)}

\* BlockTypeRenderer.handlePointerDown with Cubes.handlePlace / handleBreak
CubesPointerDown(button) ==
  \E dir \in {WorldDirection(cam)} :
  \E pointed \in {PointedCell(camPos, dir)} :
    /\ Event(IF pointed = {} THEN StoreNow
             ELSE LET pos == CHOOSE c \in pointed : TRUE
                  IN IF FaceDistance(pos, camPos, dir) > MAX_INTERACT_DIST THEN StoreNow
                     ELSE IF button = 2 THEN removeBlock(StoreNow, pos)
                     ELSE IF button = 0
                          THEN addBlock(StoreNow, <<pos[1] - dir[1], pos[2] - dir[2],
                                                    pos[3] - dir[3]>>)
                     ELSE StoreNow)
    /\ UNCHANGED <<bodyVars, frameVars, cam, inputVars, isMobile>>

\* the y of the Ground plane
GroundPlaneY == -4 * Metre

\* Ground.handleClick: the pointer ray meets the plane when the camera looks
\* down; e.point.y is the plane's y up to rounding, so its floor is -4 or -5
GroundClick(floorY) ==
  /\ cam.pitch = -1 /\ camPos[2] > GroundPlaneY
  /\ LET pos == <<Round(camPos[1]), floorY + 1, Round(camPos[3])>>
     IN Event(IF posKey(pos[1], pos[2], pos[3]) \notin DOMAIN blocks
              THEN addBlock(StoreNow, pos)
              ELSE StoreNow)
  /\ UNCHANGED <<bodyVars, frameVars, cam, inputVars, isMobile>>

\* ------------------------------------------------------------------ store API

\* useStore.getState().addBlock(pos) by any caller
AddBlock(pos) ==
  /\ Event(addBlock(StoreNow, pos))
  /\ UNCHANGED <<bodyVars, frameVars, cam, inputVars, isMobile>>

\* useStore.getState().removeBlock(pos) by any caller
RemoveBlock(pos) ==
  /\ Event(removeBlock(StoreNow, pos))
  /\ UNCHANGED <<bodyVars, frameVars, cam, inputVars, isMobile>>

\* ------------------------------------------------------------------ specifications

\* a frame of a session followed up to maxClock, of which at most maxOdd
\* frames have a duration in oddDts
SessionFrame(rawDt, oddDts, maxOdd, maxClock) ==
  /\ clock + rawDt <= maxClock
  /\ rawDt \in oddDts => nOdd < maxOdd
  /\ Frame(rawDt)
  /\ nOdd' = IF rawDt \in oddDts THEN nOdd + 1 ELSE nOdd

\* the inputs the session draws from: frames last 0.1 s, but for at most
\* MaxOddFrames of 0.15 s (clamped to MAX_DT) or 1/200 s
RawDts == {60}
OddDts == {90, 3}
CodeSample == {"KeyW", "Space", "ShiftLeft", "Digit3", "Digit9"}
LookSample == {<<1, 0>>, <<0, 1>>}
KnobSample == {<<1, -1>>}
CellSample == {<<0, 15, 0>>, <<0, 14, 0>>, <<0, 16, -2>>, <<0, 2, 0>>, <<5, 10, 5>>,
               <<0, 10, 0>>}

TimedFrame(rawDt) == SessionFrame(rawDt, OddDts, MaxOddFrames, MaxClock)

Next ==
  \/ \E rawDt \in RawDts \cup OddDts : TimedFrame(rawDt)
  \/ \E code \in CodeSample : KeyDown(code)
  \/ \E code \in CodeSample : KeyUp(code)
  \/ \E type \in {"stone", "wood"} : HudClick(type)
  \/ \E look \in LookSample : MouseLook(look)
  \/ \E knob \in KnobSample : JoystickTouch(knob[1], knob[2])
  \/ JoystickEnd
  \/ \E down \in BOOLEAN : JumpButton(down)
  \/ \E look \in LookSample : LookMove(look)
  \/ \E action \in {"place", "break"} : ActionButton(action)
  \/ \E button \in {0, 2} : CubesPointerDown(button)
  \/ \E floorY \in {-5, -4} : GroundClick(floorY)
  \/ \E pos \in CellSample : AddBlock(pos)
  \/ \E pos \in CellSample : RemoveBlock(pos)

Spec == Init /\ [][Next]_vars

\* ---- the store and its callers: frames of 0.1 s or 0.15 s, the pointer,
\* the mobile action buttons, the hotbar and direct store calls, without
\* movement input
StoreDts == {60, 90}

StoreFrame(rawDt) == SessionFrame(rawDt, {}, 0, MaxClock)

StoreNext ==
  \/ \E rawDt \in StoreDts : StoreFrame(rawDt)
  \/ \E type \in {"stone", "wood"} : HudClick(type)
  \/ \E look \in LookSample : MouseLook(look)
  \/ \E look \in LookSample : LookMove(look)
  \/ \E action \in {"place", "break"} : ActionButton(action)
  \/ \E button \in {0, 2} : CubesPointerDown(button)
  \/ \E floorY \in {-5, -4} : GroundClick(floorY)
  \/ \E pos \in CellSample : AddBlock(pos)
  \/ \E pos \in CellSample : RemoveBlock(pos)

SpecStore == Init /\ [][StoreNext]_vars

\* ---- the spawn fall: frames only, no input and no store mutation; frames
\* last 0.1 s, but for at most MaxOddLong of 0.095 s or 1/200 s
FallDts == {60}
FallOddDts == {57, 3, 90}

FallFrame(rawDt) == SessionFrame(rawDt, FallOddDts, MaxOddLong, LongClock)

FallNext == \E rawDt \in FallDts \cup FallOddDts : FallFrame(rawDt)

SpecFall == Init /\ [][FallNext]_vars

\* ---- walking off the world: frames, and the W key pressed at some time and
\* held; frames last 0.1 s, but for at most MaxOddFrames of 0.075 s
VoidDts == {60}
VoidOddDts == {45}
VoidCodes == {"KeyW"}

VoidFrame(rawDt) == SessionFrame(rawDt, VoidOddDts, MaxOddFrames, LongClock)

VoidNext ==
  \/ \E rawDt \in VoidDts \cup VoidOddDts : VoidFrame(rawDt)
  \/ \E code \in VoidCodes : KeyDown(code)

SpecVoid == Init /\ [][VoidNext]_vars

\* ---- the spawn point: as the void scenario, with a block put on the cell
\* of the spawn point at any time
BuryCells == {<<0, 15, 0>>}
BuryFrame(rawDt) == SessionFrame(rawDt, {}, 0, LongClock)

BuryNext ==
  \/ \E rawDt \in VoidDts : BuryFrame(rawDt)
  \/ \E code \in VoidCodes : KeyDown(code)
  \/ \E pos \in BuryCells : AddBlock(pos)

SpecBury == Init /\ [][BuryNext]_vars

\* ---- frames without end: the session of a touch device with the joystick
\* pushed forward or backward, followed for as long as frames occur. The
\* frame is useFrame with the time origin moved to its end: the program reads
\* the clocks only in the differences now - lastStoreUpdate and
\* now - lastFootstep, so the elapsed time stays at its initial value and the
\* two time stamps are kept relative to it (the footstep stamp no further
\* back than the gap it is compared with)
DriftDts == {60}
DriftKnobs == {<<0, -1>>, <<0, 1>>}

DriftFrame(rawDt) ==
  \E st1 \in {MobileActionResult(StoreNow, mobileAction, camPos,
                                 WorldDirection(CamAfterLook))} :
  \E mid \in {BodyAfterMove(rawDt, st1.blocks)} :
  \E b \in {Respawn(mid)} :
  LET jumps == MergedKeys["jump"] /\ onGround
      now  == clock + rawDt
      step == FootstepDue(b) /\ ~(now - lastFootstep < FootstepGap)
      st2  == IF now - lastStoreUpdate > StoreThrottle
              THEN setPlayerPosition(st1, <<b.px, b.py, b.pz>>)
              ELSE st1
  IN /\ cam' = CamAfterLook
     /\ mobileLook' = IF isMobile THEN <<0, 0>> ELSE mobileLook
     /\ mobileAction' = "null"
     /\ px' = b.px /\ py' = b.py /\ pz' = b.pz
     /\ vy' = b.vy
     /\ onGround' = b.onGround
     /\ sounds' = st1.sounds
                  \o (IF jumps THEN <<"jump">> ELSE <<>>)
                  \o (IF mid.py < RESPAWN_Y THEN <<"respawn">> ELSE <<>>)
                  \o (IF step THEN <<"footstep">> ELSE <<>>)
     /\ lastFootstep' = IF step THEN clock
                        ELSE Max(lastFootstep - rawDt, clock - FootstepGap)
     /\ camPos' = <<b.px, b.py + EYE_HEIGHT, b.pz>>
     /\ clock' = clock
     /\ lastStoreUpdate' = IF now - lastStoreUpdate > StoreThrottle THEN clock
                           ELSE lastStoreUpdate - rawDt
     /\ Commit(st2)
     /\ UNCHANGED <<keys, held, mobileKeys, isMobile, nEvents, nOdd, codec, cache, sub>>

DriftFrames == \E rawDt \in DriftDts : DriftFrame(rawDt)

DriftNext ==
  \/ DriftFrames
  \/ \E knob \in DriftKnobs : JoystickTouch(knob[1], knob[2])
  \/ JoystickEnd

\* the throttle stamp as a frame leaves it: a frame always moves it, the
\* joystick handlers never do, so the steps of DriftNext that satisfy
\* DriftTicks are exactly its frames, and one is always possible
FrameTick(rawDt) ==
  lastStoreUpdate' = IF clock + rawDt - lastStoreUpdate > StoreThrottle
                     THEN clock
                     ELSE lastStoreUpdate - rawDt

DriftTicks == \E rawDt \in DriftDts : FrameTick(rawDt)

\* requestAnimationFrame keeps calling useFrame
SpecDrift == Init /\ [][DriftNext]_vars /\ WF_lastStoreUpdate(DriftTicks)

\* ---- jumping: the jump key and the mobile jump button are pressed and
\* released at any time while the player falls, lands and stands
JumpClock == 900
JumpDts == {60}
JumpCodes == {"Space"}
JumpFrame(rawDt) == SessionFrame(rawDt, {}, 0, JumpClock)

JumpNext ==
  \/ \E rawDt \in JumpDts : JumpFrame(rawDt)
  \/ \E code \in JumpCodes : KeyDown(code)
  \/ \E code \in JumpCodes : KeyUp(code)
  \/ \E down \in BOOLEAN : JumpButton(down)

SpecJump == Init /\ [][JumpNext]_vars

\* ---- the two input sources: the session is taken up when the player has
\* landed on the spawn column (after 1.5 s of frames of 0.1 s without input)
\* and goes on with keys of the keyboard, the joystick and the jump button
LandedClock == 15 * MAX_DT
\* the session is followed up to this elapsed time
IntentClock == 1080

Landed ==
  /\ blocks = Terrain
  /\ blockVersion = 0
  /\ activeBlockType = "grass"
  /\ playerPosition = <<0, 2 * Metre + HalfBlock, 0>>
  /\ px = 0 /\ py = 2 * Metre + HalfBlock /\ pz = 0
  /\ vy = 0
  /\ onGround = TRUE
  /\ lastStoreUpdate = LandedClock
  /\ clock = LandedClock
  /\ camPos = <<0, 2 * Metre + HalfBlock + EYE_HEIGHT, 0>>
  /\ cam = [yaw |-> 0, pitch |-> 0]
  /\ keys = createInitialKeys
  /\ held = {}
  /\ mobileKeys = createInitialKeys
  /\ mobileLook = <<0, 0>>
  /\ mobileAction = "null"
  /\ groups = groupByType(Terrain)
  /\ groupsVersion = 0
  /\ sounds = NoSounds
  /\ lastFootstep = 0
  /\ nEvents = 0
  /\ nOdd = 0
  /\ codec = NoCodec /\ cache = NoCache /\ sub = NoSub

InitIntent == Landed /\ isMobile \in BOOLEAN

IntentDts == {60}
IntentCodes == {"KeyW", "KeyS", "KeyD", "Space", "ShiftLeft"}
IntentKnobs == {<<0, -1>>, <<0, 1>>, <<-1, 0>>}
IntentFrame(rawDt) == SessionFrame(rawDt, {}, 0, IntentClock)

IntentNext ==
  \/ \E rawDt \in IntentDts : IntentFrame(rawDt)
  \/ \E code \in IntentCodes : KeyDown(code)
  \/ \E knob \in IntentKnobs : JoystickTouch(knob[1], knob[2])
  \/ JumpButton(TRUE)

SpecIntent == InitIntent /\ [][IntentNext]_vars

\* ---- the keyboard on its own: keys go down, repeat and go up in any order,
\* a key going up only if it is down
MaxKeyEvents == 4
KeysCodes == {"KeyW", "Space", "ShiftLeft", "ShiftRight"}

KeysNext ==
  \/ \E code \in KeysCodes : onDown(code, MaxKeyEvents)
  \/ \E code \in held : onUp(code, MaxKeyEvents)

SpecKeys == Init /\ [][KeysNext]_vars

\* ---- the mobile action buttons: the landed player turns the camera, taps
\* Place or Break, and blocks are put in front of the camera, between frames
ActLooks == {<<0, 1>>, <<0, -1>>, <<1, 0>>}
ActCells == {<<0, 4, -2>>, <<0, 4, 0>>}
ActFrame(rawDt) == SessionFrame(rawDt, {}, 0, IntentClock)

ActNext ==
  \/ \E rawDt \in IntentDts : ActFrame(rawDt)
  \/ \E look \in ActLooks : LookMove(look)
  \/ \E action \in {"place", "break"} : ActionButton(action)
  \/ \E pos \in ActCells : AddBlock(pos)

SpecAct == InitIntent /\ [][ActNext]_vars

\* ---- the edge: the landed player walks north off the spawn column in
\* frames of 1/60 s (one sub-step each), and may jump
\* the session is followed up to this elapsed time
EdgeClock == 1000
EdgeDts == {10}
EdgeCodes == {"KeyW", "Space"}
EdgeFrame(rawDt) == SessionFrame(rawDt, {}, 0, EdgeClock)

EdgeNext ==
  \/ \E rawDt \in EdgeDts : EdgeFrame(rawDt)
  \/ \E code \in EdgeCodes : KeyDown(code)

SpecEdge == InitIntent /\ [][EdgeNext]_vars

\* ---- the long fall: the player walks off the terrain and falls until the
\* respawn; frames last 0.1 s, but for at most MaxOddFrames of 0.15 s or
\* 1/200 s
PlungeClock == 1020
PlungeDts == {60}
PlungeOddDts == {90, 3}
PlungeFrame(rawDt) == SessionFrame(rawDt, PlungeOddDts, MaxOddFrames, PlungeClock)

PlungeNext ==
  \/ \E rawDt \in PlungeDts \cup PlungeOddDts : PlungeFrame(rawDt)
  \/ \E code \in VoidCodes : KeyDown(code)

SpecPlunge == Init /\ [][PlungeNext]_vars

\* ---- walking: the walk, sneak and jump keys are pressed at any time while
\* the player falls, lands, walks on the terrain and off it
WalkDts == {60}
WalkCodes == {"KeyW", "ShiftLeft", "Space"}
WalkFrame(rawDt) == SessionFrame(rawDt, {}, 0, LongClock)

WalkNext ==
  \/ \E rawDt \in WalkDts : WalkFrame(rawDt)
  \/ \E code \in WalkCodes : KeyDown(code)

SpecWalk == Init /\ [][WalkNext]_vars

\* ---- the generated world: a session on the terrain of the full footprint,
\* where the player lands and walks and no block is placed or broken
InitFull ==
  \E w \in {generateTerrain(SIZE)} :
    /\ blocks = w
    /\ blockVersion = 0
    /\ activeBlockType = "grass"
    /\ playerPosition = <<0, 10 * Metre, 0>>
    /\ px = 0 /\ py = 15 * Metre /\ pz = 0
    /\ vy = 0
    /\ onGround = FALSE
    /\ lastStoreUpdate = 0
    /\ clock = 0
    /\ camPos = <<0, 15 * Metre, 0>>
    /\ cam = [yaw |-> 0, pitch |-> 0]
    /\ keys = createInitialKeys
    /\ held = {}
    /\ mobileKeys = createInitialKeys
    /\ mobileLook = <<0, 0>>
    /\ mobileAction = "null"
    /\ isMobile = FALSE
    /\ groups = groupByType(w)
    /\ groupsVersion = 0
    /\ sounds = NoSounds
    /\ lastFootstep = 0
    /\ nEvents = 0
    /\ nOdd = 0
    /\ codec = NoCodec /\ cache = NoCache /\ sub = NoSub

\* the session on the full footprint is followed up to this elapsed time
WorldClock == 720
WorldDts == {60}
WorldCodes == {"KeyW"}
WorldFrame(rawDt) == SessionFrame(rawDt, {}, 0, WorldClock)

WorldNext ==
  \/ \E rawDt \in WorldDts : WorldFrame(rawDt)
  \/ \E code \in WorldCodes : KeyDown(code)

SpecWorld == InitFull /\ [][WorldNext]_vars

\* ---- the key codec on its own: two positions are encoded, then decoded
Coord == {-10, -1, 0, 12}
CodecCells == Coord \X Coord \X Coord

worldVars == <<blocks, blockVersion, activeBlockType, playerPosition, px, py, pz, vy,
               onGround, lastStoreUpdate, clock, camPos, cam, keys, held, mobileKeys,
               mobileLook, mobileAction, isMobile, groups, groupsVersion, sounds,
               lastFootstep, nEvents, nOdd>>

InitCodec ==
  /\ InitWorld
  /\ ~isMobile
  /\ \E a \in CodecCells, b \in CodecCells :
       codec = [in |-> <<a, b>>, keys |-> <<>>, out |-> <<>>]
  /\ cache = NoCache /\ sub = NoSub

Encode ==
  /\ codec.keys = <<>>
  /\ codec' = [codec EXCEPT !.keys = <<posKey(codec.in[1][1], codec.in[1][2], codec.in[1][3]),
                                       posKey(codec.in[2][1], codec.in[2][2], codec.in[2][3])>>]
  /\ UNCHANGED <<worldVars, cache, sub>>

Decode ==
  /\ codec.keys # <<>> /\ codec.out = <<>>
  /\ codec' = [codec EXCEPT !.out = <<keyToPos(codec.keys[1]), keyToPos(codec.keys[2])>>]
  /\ UNCHANGED <<worldVars, cache, sub>>

CodecNext == Encode \/ Decode

SpecCodec == InitCodec /\ [][CodecNext]_vars

\* ---- the key cache on its own: fastPosKey is called again and again
CacheCoord == {-1, 10}
CacheCalls == CacheCoord \X CacheCoord \X CacheCoord

InitCache == InitWorld /\ ~isMobile /\ codec = NoCodec /\ sub = NoSub /\ cache = NoCache

FastPosKey(c) ==
  /\ cache' = fastPosKeyIn(cache.table, c[1], c[2], c[3])
  /\ UNCHANGED <<worldVars, codec, sub>>

CacheNext == \E c \in CacheCalls : FastPosKey(c)

SpecCache == InitCache /\ [][CacheNext]_vars

\* ---- the movement of a frame on its own (sub-step loop, then respawn
\* check), applied to a body near the low cell (0, 1, -1), which has the
\* higher cells (1, 2, -1) to its east and (0, 2, 0) to its south and a stone
\* block placed at (0, 5, -1) over it, or to a body falling in the void
SubWorld == (posKey(0, 5, -1) :> "stone") @@ Terrain
\* Horizontal positions are those walking (660 per time unit) and sneaking
\* (231) from x = 0, z = 0 lead to, all multiples of 33.
\* feet x: cell centre, 0.150125 m and 0.108625 m west of touching the east wall
SubXs == {0, 10791, 7821}
\* feet z: cell centre, 0.149792 m and 0.108542 m north of touching the south wall
SubZs == {-71973, -61215, -64185}
\* feet y: on the low cell, 0.1 m above it, 0.2 m and 0.05 m below the top
\* of the walls, with the head 0.115625 m and 0.05 m under the placed block,
\* near the respawn line
SubYs == {Metre + HalfBlock, (16 * Metre) \div 10, (23 * Metre) \div 10,
          (245 * Metre) \div 100, 193275, (275 * Metre) \div 100,
          -(195 * Metre) \div 10}
\* vertical velocity after the gravity of the frame: at rest after 1/200 s
\* and after 0.1 s, falling at 10 m/s and at 40 m/s, and 1/24 s into a jump
SubVys == {GRAVITY * 3, GRAVITY * 60, -10 * MPS, MaxFall, JUMP_VEL + GRAVITY * 25}
SubVxz == {0, SPEED, -SPEED}
\* frame times: 1/60 s, 1/200 s, 1/30 s
SubDts == {10, 3, 20}

SubBodies ==
  [px : SubXs, py : SubYs, pz : SubZs, vy : SubVys, onGround : BOOLEAN,
   vx : SubVxz, vz : SubVxz, steps : {<<>>}]

\* the AABB of body b overlaps no block of w (the blocks of w that are near
\* the bodies lie in these cells)
BodyClear(w, b) ==
  \A bx \in -1..1, by \in 0..6, bz \in -2..1 :
    fastPosKey(bx, by, bz) \in DOMAIN w =>
      ~(/\ bx * Metre + HalfBlock > b.px - HALF /\ bx * Metre - HalfBlock < b.px + HALF
        /\ by * Metre + HalfBlock > b.py        /\ by * Metre - HalfBlock < b.py + PLAYER_H
        /\ bz * Metre + HalfBlock > b.pz - HALF /\ bz * Metre - HalfBlock < b.pz + HALF)

InitSub ==
  /\ InitWorld /\ ~isMobile /\ codec = NoCodec /\ cache = NoCache
  /\ \E w \in {SubWorld} : \E b \in SubBodies, dt \in SubDts :
       /\ BodyClear(w, b)
       /\ sub = [blocks |-> w, b |-> b, dt |-> dt, out |-> <<>>]

\* steps 3 and 4 of useFrame on the body
RunMove ==
  /\ sub.out = <<>>
  /\ sub' = [sub EXCEPT !.out = Respawn(SubSteps(sub.b, sub.dt, sub.blocks))]
  /\ UNCHANGED <<worldVars, codec, cache>>

SubNext == RunMove

SpecSub == InitSub /\ [][SubNext]_vars

\* ---- the snap of a falling body on its own: one sub-step of a body over the
\* low cell (0, 1, -1) or embedded in its column, on the terrain or under a
\* tower of stone blocks standing on that cell
\* a number of upward shifts of the snap loop taken as a cap
SnapCap == 4

\* the terrain with n stone blocks stacked on the cell (0, 1, -1)
Tower(n) ==
  [k \in {posKey(0, 1 + i, -1) : i \in 1..n} |-> "stone"] @@ Terrain

SnapWorlds == {Tower(0), Tower(SnapCap + 2)}
SnapXs == {0, 14421}
SnapZs == {-71973}
SnapYs == {-(24 * Metre) \div 10, (2 * Metre) \div 10, Metre + HalfBlock,
           (16 * Metre) \div 10, (26 * Metre) \div 10, (41 * Metre) \div 10}
SnapVys == {0, GRAVITY * 3, -10 * MPS, MaxFall}
SnapDts == {10, 3}
SnapBodies == [px : SnapXs, py : SnapYs, pz : SnapZs, vy : SnapVys, onGround : BOOLEAN,
               vx : {0}, vz : {0}, steps : {<<>>}]

InitSnap ==
  /\ InitWorld /\ ~isMobile
  /\ codec = NoCodec /\ cache = NoCache
  /\ \E w \in SnapWorlds : \E b \in SnapBodies, dt \in SnapDts :
       sub = [blocks |-> w, b |-> b, dt |-> dt, out |-> <<>>]

SpecSnap == InitSnap /\ [][SubNext]_vars

\* ---- collides on its own: a box placed around the stone block (0, 5, -1),
\* alone in the store or over the terrain; on each axis the box is apart
\* from the block, touches a face, overlaps it by 0.29 mm or by more, on
\* either side
BoxCell == <<0, 5, -1>>
BoxWidth == (6 * Metre) \div 10
\* the offsets of the lower face of the box from the centre of the block
BoxOffsets ==
  {-HalfBlock - BoxWidth - 2 * EPS, -HalfBlock - BoxWidth,
   -HalfBlock - BoxWidth + 21, -HalfBlock - BoxWidth + EPS,
   -BoxWidth \div 2,
   HalfBlock - EPS, HalfBlock - 21, HalfBlock, HalfBlock + 2 * EPS}

Boxes ==
  {[minX |-> BoxCell[1] * Metre + ox, maxX |-> BoxCell[1] * Metre + ox + BoxWidth,
    minY |-> BoxCell[2] * Metre + oy, maxY |-> BoxCell[2] * Metre + oy + BoxWidth,
    minZ |-> BoxCell[3] * Metre + oz, maxZ |-> BoxCell[3] * Metre + oz + BoxWidth] :
     ox \in BoxOffsets, oy \in BoxOffsets, oz \in BoxOffsets}

BoxWorlds == {posKey(BoxCell[1], BoxCell[2], BoxCell[3]) :> "stone", SubWorld}

InitBox ==
  /\ InitWorld /\ ~isMobile
  /\ codec = NoCodec /\ cache = NoCache
  /\ \E w \in BoxWorlds : \E box \in Boxes :
       sub = [blocks |-> w, b |-> box, dt |-> 0, out |-> <<>>]

\* collides(minX, minY, minZ, maxX, maxY, maxZ, blocks) is called on the box
TestBox ==
  /\ sub.out = <<>>
  /\ sub' = [sub EXCEPT !.out = <<collides(sub.b.minX, sub.b.minY, sub.b.minZ,
                                           sub.b.maxX, sub.b.maxY, sub.b.maxZ,
                                           sub.blocks)>>]
  /\ UNCHANGED <<worldVars, codec, cache>>

BoxNext == TestBox

SpecBox == InitBox /\ [][BoxNext]_vars

\* ---- the decoder on its own: keyToPos is applied to a string that need
\* not be a key
MaxKeyLen == 5
KeyChars == {"1", "-", ",", "a"}
RawKeys == UNION {[1..n -> KeyChars] : n \in 0..MaxKeyLen}

InitDecode ==
  /\ InitWorld /\ ~isMobile /\ cache = NoCache /\ sub = NoSub
  /\ \E k \in RawKeys : codec = [in |-> <<>>, keys |-> <<k>>, out |-> <<>>]

DecodeKey ==
  /\ codec.in = <<>> /\ codec.keys # <<>> /\ codec.out = <<>>
  /\ codec' = [codec EXCEPT !.out = <<keyToPos(codec.keys[1])>>]
  /\ UNCHANGED <<worldVars, cache, sub>>

DecodeNext == DecodeKey

SpecDecode == InitDecode /\ [][DecodeNext]_vars
\* ------------------------------------------------------------------ properties

\* the unit cube of cell c overlaps the player's AABB
\* [x - 0.3, x + 0.3] x [y, y + 1.7] x [z - 0.3, z + 0.3] at feet (x, y, z)
CubeMeetsPlayer(c, x, y, z) ==
  /\ c[1] * Metre + HalfBlock > x - HALF /\ c[1] * Metre - HalfBlock < x + HALF
  /\ c[2] * Metre + HalfBlock > y        /\ c[2] * Metre - HalfBlock < y + PLAYER_H
  /\ c[3] * Metre + HalfBlock > z - HALF /\ c[3] * Metre - HalfBlock < z + HALF

\* the cells around the player
NearCells ==
  {<<bx, by, bz>> : bx \in (Round(px) - 1)..(Round(px) + 1),
                    by \in (Floor(py, Metre) - 1)..(Floor(py + PLAYER_H, Metre) + 1),
                    bz \in (Round(pz) - 1)..(Round(pz) + 1)}

\* get(p) in store st
Get(st, p) ==
  IF posKey(p[1], p[2], p[3]) \in DOMAIN st.blocks
  THEN st.blocks[posKey(p[1], p[2], p[3])]
  ELSE "empty"

\* some sound of the last handler is s
Played(s) == \E i \in DOMAIN sounds : sounds[i] = s

\* C1: in every reachable state, addBlock(p) on an empty cell p that does not
\* overlap the player stores the active block type at p and raises
\* blockVersion by exactly 1, and a further addBlock(p), even after the active
\* type was changed, leaves every cell and blockVersion unchanged.
AddToFreeCellSucceeds ==
  \A p \in CellSample :
    (Get(StoreNow, p) = "empty" /\ ~CubeMeetsPlayer(p, px, py, pz)) =>
      \A s1 \in {addBlock(StoreNow, p)} :
        /\ Get(s1, p) = activeBlockType
        /\ s1.blockVersion = blockVersion + 1
        /\ \A t \in BlockType :
             \A s2 \in {addBlock(setActiveBlockType(s1, t), p)} :
               s2.blocks = s1.blocks /\ s2.blockVersion = s1.blockVersion

\* The same for the cells that the store's own test against the player
\* position it holds lets through: there addBlock does succeed.
AddAcceptedByStoreSucceeds ==
  \A p \in CellSample :
    (Get(StoreNow, p) = "empty" /\ ~overlapsPlayer(p[1], p[2], p[3], playerPosition)) =>
      \A s1 \in {addBlock(StoreNow, p)} :
        /\ Get(s1, p) = activeBlockType
        /\ s1.blockVersion = blockVersion + 1
        /\ \A k \in DOMAIN blocks : k \in DOMAIN s1.blocks /\ s1.blocks[k] = blocks[k]
        /\ \A t \in BlockType :
             \A s2 \in {addBlock(setActiveBlockType(s1, t), p)} :
               s2.blocks = s1.blocks /\ s2.blockVersion = s1.blockVersion

\* C2: in every reachable state, removeBlock(p) on an occupied cell empties
\* p, leaves every other cell unchanged and raises blockVersion by exactly 1;
\* on an empty cell it changes neither the block mapping nor blockVersion.
RemoveBlockContract ==
  \A p \in CellSample :
    \A s \in {removeBlock(StoreNow, p)} :
      IF Get(StoreNow, p) # "empty"
      THEN /\ Get(s, p) = "empty"
           /\ DOMAIN s.blocks = DOMAIN blocks \ {posKey(p[1], p[2], p[3])}
           /\ \A k \in DOMAIN s.blocks : s.blocks[k] = blocks[k]
           /\ s.blockVersion = blockVersion + 1
      ELSE s.blocks = blocks /\ s.blockVersion = blockVersion

\* a removeBlock has emptied the terrain cell (0, 2, 0), and the cell (5, 10, 5)
\* that a removeBlock would find empty was never populated
RemoveBlockHappened ==
  /\ Played("break")
  /\ blockVersion >= 1
  /\ Get(StoreNow, <<0, 2, 0>>) = "empty"
  /\ Get(StoreNow, <<5, 10, 5>>) = "empty"

\* C3: in every reachable state, addBlock at a cell whose unit cube overlaps
\* the player's current AABB (at the controller's feet position) is rejected:
\* the block mapping and blockVersion are unchanged, occupied cell or not.
AddIntoPlayerRejected ==
  \A c \in NearCells :
    CubeMeetsPlayer(c, px, py, pz) =>
      \A s \in {addBlock(StoreNow, c)} :
        s.blocks = blocks /\ s.blockVersion = blockVersion

\* C4: blockVersion starts at 0 and every step raises it by exactly 1 when
\* the step changed the block mapping (a successful addBlock or removeBlock)
\* and leaves it unchanged otherwise (a rejected call, setActiveBlockType,
\* setPlayerPosition, a frame without a successful mobile action).
VersionCountsMutations ==
  /\ blockVersion = 0
  /\ [][blockVersion' = blockVersion + (IF blocks' # blocks THEN 1 ELSE 0)]_vars

\* two calls changed the mapping, one before and one after a frame
TwoMutationsCounted ==
  /\ blockVersion = 2
  /\ nEvents = 2
  /\ clock > 0

\* C5: blockVersion is a sound change signal: it never decreases, a step
\* that keeps it keeps the block mapping, and whenever Cubes has rendered for
\* the current blockVersion its groups are the grouping of the current mapping.
VersionSignalsChange ==
  /\ [](groupsVersion = blockVersion => groups = groupByType(blocks))
  /\ [][/\ blockVersion' >= blockVersion
        /\ blockVersion' = blockVersion => blocks' = blocks]_vars

\* Cubes has regrouped after a stone block was added at (5, 10, 5)
CubesRegrouped ==
  /\ groupsVersion = blockVersion
  /\ blockVersion >= 1
  /\ <<5, 10, 5>> \in groups["stone"]

\* some occupied cell of bl overlaps the player's AABB at feet (x, y, z)
InsideBlock(bl, x, y, z) ==
  \E k \in DOMAIN bl : \E c \in {keyToPos(k)} : CubeMeetsPlayer(c, x, y, z)

PlayerInsideBlock == InsideBlock(blocks, px, py, pz)

\* C6: at the end of every update frame the player's AABB overlaps the unit
\* cube of no occupied cell.
FrameEndsClear == [][clock' # clock => ~InsideBlock(blocks', px', py', pz')]_vars

\* C7: from the initial state with no input and no store mutation, when the
\* frames total 2 simulated seconds the feet are at x = 0, z = 0, y = 2.5 (the
\* top face of the grass block at (0, 2, 0)) and Grounded is true.
SettledAfterTwoSeconds ==
  (clock = 2 * Second /\ nEvents = 0 /\ blockVersion = 0) =>
    /\ px = 0 /\ pz = 0
    /\ py = Height(0, 0) * Metre + HalfBlock
    /\ Height(0, 0) = 2
    /\ onGround

\* the player stands on the top face of an occupied cell, Grounded, with no
\* vertical velocity and no input
AtRest ==
  /\ onGround /\ vy = 0
  /\ MergedKeys = createInitialKeys
  /\ ~PlayerInsideBlock
  /\ \E k \in DOMAIN blocks :
       \E c \in {keyToPos(k)} :
         /\ py = c[2] * Metre + HalfBlock
         /\ Abs(c[1] * Metre - px) < HalfBlock + HALF
         /\ Abs(c[3] * Metre - pz) < HalfBlock + HALF

\* C8: once the player is at rest with zero input and an unmutated store, a
\* frame of any duration ends with the feet position unchanged, Grounded true
\* and vertical velocity 0.
RestIsStable ==
  [][(AtRest /\ clock' # clock) =>
       /\ px' = px /\ py' = py /\ pz' = pz
       /\ onGround'
       /\ vy' = 0]_vars

\* C9: a frame whose movement integration ends with the feet below -20 ends
\* with the player at (0, 15, 0), vertical velocity 0 and Grounded false; any
\* other frame ends where its movement integration ended.
RespawnRule ==
  [][clock' # clock =>
       \E mid \in {BodyAfterMove(clock' - clock, blocks')} :
         IF mid.py < RESPAWN_Y
         THEN /\ px' = 0 /\ py' = 15 * Metre /\ pz' = 0
              /\ vy' = 0
              /\ ~onGround'
         ELSE px' = mid.px /\ py' = mid.py /\ pz' = mid.pz]_vars

\* a frame has just moved the player from the void to the spawn point
RespawnHappened ==
  /\ Played("respawn")
  /\ px = 0 /\ py = 15 * Metre /\ pz = 0
  /\ clock > 0

\* C10: keyToPos(posKey(x, y, z)) = (x, y, z) for the integers x, y, z that
\* were encoded, negative and zero included, and two distinct positions get
\* two distinct keys.
CodecRoundTrip ==
  /\ codec.out # <<>> => codec.out = codec.in
  /\ (codec.keys # <<>> /\ codec.in[1] # codec.in[2]) => codec.keys[1] # codec.keys[2]

\* two distinct positions, one with a negative, a zero and a two-digit
\* coordinate, have been encoded and decoded
CodecApplied ==
  /\ codec.out # <<>>
  /\ codec.in[1] = <<-10, 0, 12>>
  /\ codec.in[2] = <<-1, 0, 12>>

\* the cells _keyCache has a key for
CachedCells(table) ==
  {c \in CacheCalls : Cached(table, c[1], c[2], c[3])}

\* C11: whatever fastPosKey calls came before, a fastPosKey call returns the
\* key posKey builds for the same triple, every key the cache holds is the
\* posKey key of its triple, and an entry of the cache is never changed or
\* dropped by a later call.
CachedIsPlain ==
  /\ [](/\ cache.call # <<>> =>
             cache.key = posKey(cache.call[1], cache.call[2], cache.call[3])
        /\ \A c \in CachedCells(cache.table) :
             cache.table[c[1]][c[2]][c[3]] = posKey(c[1], c[2], c[3]))
  /\ [][\A c \in CachedCells(cache.table) :
          /\ c \in CachedCells(cache'.table)
          /\ cache'.table[c[1]][c[2]][c[3]] = cache.table[c[1]][c[2]][c[3]]]_vars

\* C11 witness: a call answered from the cache, with the cache holding other
\* rows of the same column
CacheHit ==
  /\ cache.hit
  /\ cache.call = <<-1, 10, -1>>
  /\ Cached(cache.table, -1, -1, -1)
  /\ Cached(cache.table, 10, 10, 10)

\* C12: a frame makes the jump transition (the sub-step loop starts from the
\* vertical velocity JUMP_VEL plus this frame's gravity, with Grounded
\* cleared, and the jump sound is played) exactly when the merged jump input
\* and Grounded are both true at its start; in every other frame the loop
\* starts from the old velocity plus gravity, clamped, whatever the jump
\* input is, and the frame ends with the velocity the loop started from or
\* with 0.
JumpOnlyFromGround ==
  [][clock' # clock =>
       LET dt    == Min(clock' - clock, MAX_DT)
           jumps == (keys["jump"] \/ mobileKeys["jump"]) /\ onGround
           start == BodyStart(dt, CamAfterLook, MergedKeys)
           v0    == IF jumps THEN 8 * MPS ELSE vy
       IN /\ start.vy = Max(v0 + GRAVITY * dt, MaxFall)
          /\ start.onGround = (onGround /\ ~jumps)
          /\ jumps <=> Played("jump")'
          /\ vy' \in {start.vy, 0}]_vars

\* C12 witness: the frame after a jump from the ground at rest: the player
\* is off the ground and rises at 8 m/s less the gravity of one frame
JumpedFromGround ==
  /\ Played("jump")
  /\ ~onGround
  /\ vy = 8 * MPS + GRAVITY * 60
  /\ py > 2 * Metre + HalfBlock

\* C13: a frame adds the gravity -25 m/s2 * dt, dt = min(rawDt, 0.1 s), to
\* the vertical velocity once, before its sub-steps, and clamps the sum at
\* -40 m/s; the sub-steps only keep that velocity or set it to 0, so the
\* velocity the loop starts from, the one it ends with and the one held at
\* the end of the frame are never below -40 m/s.
GravityOncePerFrame ==
  [][clock' # clock =>
       LET dt    == Min(clock' - clock, Second \div 10)
           v0    == IF MergedKeys["jump"] /\ onGround THEN JUMP_VEL ELSE vy
           start == BodyStart(dt, CamAfterLook, MergedKeys)
           mid   == BodyAfterMove(clock' - clock, blocks')
       IN /\ start.vy = Max(v0 - (25 * MPS * dt) \div Second, -40 * MPS)
          /\ mid.vy \in {start.vy, 0}
          /\ vy' \in {mid.vy, 0}
          /\ vy' >= -40 * MPS]_vars

\* C13 witness: a frame of free fall has ended at -40 m/s although more than
\* 1.6 s of gravity had been added: the clamp has acted
FallClamped ==
  /\ vy = -40 * MPS
  /\ clock * 25 * MPS > 40 * MPS * Second
  /\ py < 0
  /\ ~onGround

RECURSIVE SumSeq(_)
SumSeq(s) == IF s = <<>> THEN 0 ELSE s[1] + SumSeq(Tail(s))

\* C15: with dt = min(rawDt, 0.1 s), the sub-step loop of a frame runs at most
\* 6 sub-steps, each of them lasts at most 1/60 s, and together they last dt
\* less a remainder of at most 0.0001 s.
StepsBounded ==
  [][clock' # clock =>
       LET dt  == Min(clock' - clock, Second \div 10)
           run == BodyAfterMove(clock' - clock, blocks').steps
       IN /\ Len(run) <= 6
          /\ \A i \in DOMAIN run : run[i] > 0 /\ run[i] * 60 <= Second
          /\ SumSeq(run) <= dt
          /\ (dt - SumSeq(run)) * 10000 <= Second]_vars

\* C15 witness: a frame of 0.095 s (five sub-steps of 1/60 s and one of
\* 0.0117 s) has been run
ShortLastStep ==
  /\ clock = 57 + 60
  /\ nOdd = 1

\* a sub-step of s on body b in world bl with the axes taken in the order
\* Y, X, Z: Y is resolved at the old x and z, the X move is accepted when the
\* collision test at the new y clears it, the Z move when the test at the
\* new y and the resolved x clears it
AxisOrder(b, s, bl) ==
  LET y  == MoveY(b, s, bl)
      nx == b.px + b.vx * s
      hx == PlayerCollides(nx, y.py, b.pz, bl)
      x  == IF hx THEN b.px ELSE nx
      vx == IF hx THEN 0 ELSE b.vx
      nz == b.pz + b.vz * s
      hz == PlayerCollides(x, y.py, nz, bl)
  IN [px |-> x, py |-> y.py, pz |-> IF hz THEN b.pz ELSE nz, vy |-> y.vy,
      onGround |-> y.onGround, vx |-> vx, vz |-> IF hz THEN 0 ELSE b.vz]

\* the movement of sub: its sub-steps in the order Y, X, Z, one after the
\* other
AxisOrderAll ==
  LET s1 == Min(sub.dt, SUB_DT)
      r1 == AxisOrder(sub.b, s1, sub.blocks)
  IN IF sub.dt > s1 THEN AxisOrder(r1, sub.dt - s1, sub.blocks) ELSE r1

\* C14: in every sub-step the Y move is resolved first, the X move is tested
\* at the y just resolved, the Z move at that y and at the x just resolved;
\* the respawn check is made on the body all sub-steps of the frame have
\* left.
AxisOrderKept ==
  sub.out # <<>> =>
    LET r == AxisOrderAll
        e == IF r.py < -20 * Metre
             THEN [r EXCEPT !.px = 0, !.py = 15 * Metre, !.pz = 0, !.vy = 0,
                            !.onGround = FALSE]
             ELSE r
    IN \A f \in DOMAIN e : sub.out[f] = e[f]

\* C14 witness: a rising body has moved east onto the wall it was still
\* below at the start of the sub-step: the X move was tested at the new y
SteppedOntoWall ==
  /\ sub.out # <<>>
  /\ sub.dt = 10
  /\ sub.b.py < 2 * Metre + HalfBlock
  /\ sub.out.py >= 2 * Metre + HalfBlock
  /\ sub.out.px > sub.b.px
  /\ PlayerCollides(sub.out.px, sub.b.py, sub.b.pz, sub.blocks)

\* the occupied cells of world bl whose cube overlaps the AABB at feet (x, y, z)
CellsMet(bl, x, y, z) ==
  {c \in (-1..1) \X (0..6) \X (-2..1) :
     fastPosKey(c[1], c[2], c[3]) \in DOMAIN bl /\ CubeMeetsPlayer(c, x, y, z)}

\* the movement of sub is one sub-step
OneSubStep == sub.out # <<>> /\ sub.dt <= SUB_DT

\* C18: when the tentative Y move of a sub-step overlaps an occupied cell and
\* the vertical velocity is <= 0, the sub-step ends with vertical velocity 0,
\* Grounded true and the feet on the top face of the highest cell the
\* tentative AABB overlaps, or whole blocks higher when every position in
\* between overlaps a cell; never below that top face.
SnapLanding ==
  OneSubStep =>
    LET b   == sub.b
        met == CellsMet(sub.blocks, b.px, b.py + b.vy * sub.dt, b.pz)
    IN (met # {} /\ b.vy <= 0) =>
         LET top == (CHOOSE c \in met : \A d \in met : d[2] <= c[2])[2] * Metre + HalfBlock
         IN /\ sub.out.vy = 0
            /\ sub.out.onGround
            /\ sub.out.py >= top
            /\ (sub.out.py - top) % Metre = 0
            /\ \A k \in 0..6 :
                 top + k * Metre < sub.out.py =>
                   CellsMet(sub.blocks, b.px, top + k * Metre, b.pz) # {}

\* the same with "overlaps" read as "the collision test of the code finds an
\* overlap": this holds
SnapLandingWhenDetected ==
  OneSubStep =>
    LET b   == sub.b
        met == CellsMet(sub.blocks, b.px, b.py + b.vy * sub.dt, b.pz)
    IN (PlayerCollides(b.px, b.py + b.vy * sub.dt, b.pz, sub.blocks) /\ b.vy <= 0) =>
         LET top == (CHOOSE c \in met : \A d \in met : d[2] <= c[2])[2] * Metre + HalfBlock
         IN /\ met # {}
            /\ sub.out.vy = 0
            /\ sub.out.onGround
            /\ sub.out.py >= top
            /\ (sub.out.py - top) % Metre = 0
            /\ \A k \in 0..6 :
                 top + k * Metre < sub.out.py =>
                   CellsMet(sub.blocks, b.px, top + k * Metre, b.pz) # {}

\* C19: when the tentative Y move of a sub-step overlaps an occupied cell and
\* the vertical velocity is > 0, the sub-step sets the vertical velocity to 0
\* and leaves the feet elevation and the Grounded flag as they were.
HeadBump ==
  OneSubStep =>
    LET b == sub.b
    IN (CellsMet(sub.blocks, b.px, b.py + b.vy * sub.dt, b.pz) # {} /\ b.vy > 0) =>
         /\ sub.out.vy = 0
         /\ sub.out.py = b.py
         /\ sub.out.onGround = b.onGround

\* the same with "overlaps" read as "the collision test of the code finds an
\* overlap": this holds
HeadBumpWhenDetected ==
  OneSubStep =>
    LET b == sub.b
    IN (PlayerCollides(b.px, b.py + b.vy * sub.dt, b.pz, sub.blocks) /\ b.vy > 0) =>
         /\ CellsMet(sub.blocks, b.px, b.py + b.vy * sub.dt, b.pz) # {}
         /\ sub.out.vy = 0
         /\ sub.out.py = b.py
         /\ sub.out.onGround = b.onGround

\* a rising body has bumped its head on the placed block
HeadBumped ==
  /\ OneSubStep
  /\ sub.b.vy > 0
  /\ PlayerCollides(sub.b.px, sub.b.py + sub.b.vy * sub.dt, sub.b.pz, sub.blocks)
  /\ sub.out.vy = 0

\* C20: in a sub-step, px is unchanged if the tentative X move overlaps an
\* occupied cell (at the y the sub-step has resolved) and takes the tentative
\* value otherwise; the Z move, whether or not X was blocked, is accepted if
\* it is clear at the resolved x and y and leaves pz unchanged otherwise; an
\* accepted X move stays.
AxisSplit ==
  (OneSubStep /\ sub.b.py > 0) =>
    LET b  == sub.b
        nx == b.px + b.vx * sub.dt
        nz == b.pz + b.vz * sub.dt
    IN /\ sub.out.px = IF CellsMet(sub.blocks, nx, sub.out.py, b.pz) # {} THEN b.px ELSE nx
       /\ sub.out.pz = IF CellsMet(sub.blocks, sub.out.px, sub.out.py, nz) # {}
                       THEN b.pz ELSE nz

\* a body blocked by the east wall has moved north all the same
SlidAlongWall ==
  /\ OneSubStep
  /\ sub.b.vx > 0 /\ sub.out.px = sub.b.px
  /\ sub.b.vz < 0 /\ sub.out.pz = sub.b.pz + sub.b.vz * sub.dt
  /\ sub.out.py = Metre + HalfBlock

\* how many times sound x is in the sequence s
Count(s, x) == Cardinality({i \in DOMAIN s : s[i] = x})

\* C16: an addBlock call plays the place sound once when it inserts a block
\* and plays nothing when it is rejected; a removeBlock call plays the break
\* sound once when it deletes a block and plays nothing when it is rejected;
\* and whatever handler runs, the place and break sounds it plays are as many
\* as the cells it has filled and emptied.
SoundPerMutation ==
  /\ [](\A cell \in CellSample :
          /\ \E r \in {addBlock(StoreNow, cell)} :
               /\ Count(r.sounds, "place") = IF DOMAIN r.blocks # DOMAIN blocks THEN 1 ELSE 0
               /\ Count(r.sounds, "break") = 0
          /\ \E r \in {removeBlock(StoreNow, cell)} :
               /\ Count(r.sounds, "break") = IF DOMAIN r.blocks # DOMAIN blocks THEN 1 ELSE 0
               /\ Count(r.sounds, "place") = 0)
  /\ [][/\ Count(sounds', "place") = Cardinality(DOMAIN blocks' \ DOMAIN blocks)
        /\ Count(sounds', "break") = Cardinality(DOMAIN blocks \ DOMAIN blocks')]_vars

\* C16 witness: a block has been placed and a block has then been broken,
\* the break sound being the last one played
BreakHeard ==
  /\ Played("break")
  /\ ~Played("place")
  /\ blockVersion = 2
  /\ Cardinality(DOMAIN blocks) = Cardinality(DOMAIN Terrain)

\* field f is an integer as posKey writes it
IntField(f) ==
  \/ Len(f) >= 1 /\ \A i \in 1..Len(f) : IsDigit(f[i])
  \/ Len(f) >= 2 /\ f[1] = "-" /\ \A i \in 2..Len(f) : IsDigit(f[i])

\* key k has three comma-separated integer fields
WellFormed(k) ==
  \E p \in {Split(k)} : Len(p) = 3 /\ \A i \in 1..3 : IntField(p[i])

\* C17: keyToPos fails on a key that has not three comma-separated integer
\* fields: the call returns no triple.
MalformedKeyFails ==
  (codec.in = <<>> /\ codec.out # <<>> /\ ~WellFormed(codec.keys[1])) =>
    Len(codec.out[1]) # 3

\* keyToPos has returned a triple of integers for a key with empty fields
EmptyFieldsDecoded ==
  /\ codec.in = <<>> /\ codec.out # <<>>
  /\ codec.keys[1] = <<"1", ",", ",", "-", "1">>
  /\ codec.out[1] = <<1, 0, -1>>

\* the movement of sub is two sub-steps, the first of them of SUB_DT
TwoSubSteps == sub.out # <<>> /\ sub.dt > SUB_DT /\ sub.dt <= 2 * SUB_DT /\ sub.b.py > 0

\* C21: when the X (or Z) move is blocked in the first sub-step of a frame
\* and the same move is clear in the second, at the y the second sub-step
\* resolves, the second sub-step moves the player on that axis at the
\* velocity the input gave.
BlockedAxisRecovers ==
  TwoSubSteps =>
    LET b  == sub.b
        s2 == sub.dt - SUB_DT
        r1 == SubStep(b, SUB_DT, sub.blocks)
        y2 == MoveY(r1, s2, sub.blocks).py
        x2 == r1.px + b.vx * s2
    IN /\ (/\ b.vx # 0
           /\ CellsMet(sub.blocks, b.px + b.vx * SUB_DT, r1.py, b.pz) # {}
           /\ CellsMet(sub.blocks, x2, y2, r1.pz) = {})
          => sub.out.px = x2
       /\ (/\ b.vz # 0
           /\ CellsMet(sub.blocks, r1.px, r1.py, b.pz + b.vz * SUB_DT) # {}
           /\ CellsMet(sub.blocks, sub.out.px, y2, r1.pz + b.vz * s2) = {})
          => sub.out.pz = r1.pz + b.vz * s2

\* a rising body blocked by the east wall in the first sub-step has cleared
\* the top of the wall in the second and has not moved east
StayedBlocked ==
  /\ TwoSubSteps
  /\ sub.b.vx > 0
  /\ sub.b.py < 2 * Metre + HalfBlock
  /\ sub.out.py > 2 * Metre + HalfBlock
  /\ sub.out.px = sub.b.px
  /\ CellsMet(sub.blocks, sub.b.px + sub.b.vx * (sub.dt - SUB_DT), sub.out.py, sub.out.pz) = {}

\* C22: a frame plays the jump sound once if it makes the jump transition
\* and not otherwise, the respawn sound once if it respawns and not
\* otherwise; it plays at most one footstep sound, and only if it ends with
\* Grounded true and a horizontal velocity above 0.5 m/s on X or on Z, never
\* if it has respawned, and never less than 0.2 s after the last footstep
\* sound.
KinematicSounds ==
  [][clock' # clock =>
       LET mid == BodyAfterMove(clock' - clock, blocks')
           k   == MergedKeys
           runs == (k["moveForward"] # k["moveBackward"]) \/ (k["moveLeft"] # k["moveRight"])
       IN /\ Count(sounds', "jump") = IF k["jump"] /\ onGround THEN 1 ELSE 0
          /\ Count(sounds', "respawn") = IF mid.py < -20 * Metre THEN 1 ELSE 0
          /\ Count(sounds', "footstep") <= 1
          /\ Played("footstep")' =>
               /\ onGround'
               /\ runs /\ (Abs(mid.vx) * 2 > MPS \/ Abs(mid.vz) * 2 > MPS)
               /\ ~Played("respawn")'
               /\ lastFootstep' = clock'
               /\ (clock' - lastFootstep) * 5 >= Second
          /\ ~Played("footstep")' => lastFootstep' = lastFootstep]_vars

\* C22 witness: a second footstep sound is played, 0.2 s after the first
SecondFootstep ==
  /\ Played("footstep")
  /\ onGround
  /\ lastFootstep = clock
  /\ clock = 1200

\* the type stored at cell (x, y, z), "none" for a free cell
TypeAt(x, y, z) ==
  LET k == posKey(x, y, z) IN IF k \in DOMAIN blocks THEN blocks[k] ELSE "none"

\* the height of column (x, z), below the floor for a column off the footprint
ColumnTop(x, z) ==
  IF x \in -SIZE..SIZE /\ z \in -SIZE..SIZE THEN Height(x, z) ELSE -4

\* the cells inspected: the footprint, a margin of two columns around it, two
\* rows below the floor and the rows up to the top of the tallest tree
Margin == 2

\* C23: in the generated world every cell of a footprint column from the
\* floor y = -3 up to the column's height h is occupied, by grass at h, dirt
\* at h - 1 and h - 2 and stone below; every other cell is free or is tree
\* wood above h; and no key lies outside the inspected cells.
TerrainLayered ==
  /\ \A x \in -(SIZE + Margin)..(SIZE + Margin), z \in -(SIZE + Margin)..(SIZE + Margin) :
       LET h == ColumnTop(x, z)
       IN \A y \in (-3 - Margin)..(14 + Margin) :
            IF y >= -3 /\ y <= h
            THEN TypeAt(x, y, z) = (IF y = h THEN "grass"
                                    ELSE IF y = h - 1 \/ y = h - 2 THEN "dirt"
                                    ELSE "stone")
            ELSE \/ TypeAt(x, y, z) = "none"
                 \/ TypeAt(x, y, z) = "wood" /\ y > h
  /\ \A k \in DOMAIN blocks :
       LET p == keyToPos(k)
       IN /\ p[1] \in -SIZE..SIZE /\ p[3] \in -SIZE..SIZE
          /\ p[2] \in -3..14

\* C23 witness: the player stands on the grass of column (0, 0), height 2,
\* which has dirt at 1 and 0 and stone from -1 down to the floor
StandsOnLayers ==
  /\ onGround /\ px = 0 /\ pz = 0 /\ py = 2 * Metre + HalfBlock
  /\ TypeAt(0, 2, 0) = "grass" /\ TypeAt(0, 0, 0) = "dirt"
  /\ TypeAt(0, -1, 0) = "stone" /\ TypeAt(0, -3, 0) = "stone"
  /\ TypeAt(0, -4, 0) = "none"

\* the highest occupied row of terrain of column (tx, tz) within -3..10,
\* 10 for a column without terrain there
TreeBase(tx, tz) ==
  LET ys == {y \in -3..10 : TypeAt(tx, y, tz) \notin {"none", "wood"}}
  IN IF ys = {} THEN 10 ELSE CHOOSE y \in ys : \A w \in ys : w <= y

\* C24: the wood cells of the generated world are exactly the four cells
\* g + 1 .. g + 4 of each of the five anchor columns, g being the highest
\* occupied row of the column scanning from 10 down to -3 (10 if none), and
\* every terrain cell of an anchor column is still terrain.
TreesPlanted ==
  LET Anchor(i) == <<Trees[i][1], Trees[i][3]>>
      Trunk(i) == {<<Trees[i][1], TreeBase(Trees[i][1], Trees[i][3]) + dy, Trees[i][3]>> : dy \in 1..4}
  IN /\ Len(Trees) = 5
     /\ {keyToPos(k) : k \in {j \in DOMAIN blocks : blocks[j] = "wood"}}
          = UNION {Trunk(i) : i \in 1..5}
     /\ Cardinality({j \in DOMAIN blocks : blocks[j] = "wood"}) = 20
     /\ \A i \in 1..5 : \A y \in -3..Height(Trees[i][1], Trees[i][3]) :
          TypeAt(Trees[i][1], y, Trees[i][3]) \in {"grass", "dirt", "stone"}

\* C24 witness: the tree of the anchor (-5, -7), whose ground is at -2,
\* stands on it, and the one of the anchor (10, -3) on its ground at 4
TreeOnGround ==
  /\ clock > 0
  /\ TreeBase(-5, -7) = -2 /\ TypeAt(-5, -2, -7) = "grass"
  /\ \A y \in -1..2 : TypeAt(-5, y, -7) = "wood"
  /\ TypeAt(-5, 3, -7) = "none"
  /\ TreeBase(10, -3) = 4 /\ TypeAt(10, 5, -3) = "wood" /\ TypeAt(10, 8, -3) = "wood"

\* C25: the session starts on the generated terrain with version 0; a frame
\* with no pending mobile action leaves the block mapping, blockVersion and
\* activeBlockType unchanged, and no frame changes more than the one cell of
\* its mobile action, so the terrain is never generated again.
QuietFrameKeepsStore ==
  /\ blocks = generateTerrain(WorldSize) /\ blockVersion = 0
  /\ [][clock' # clock =>
          /\ mobileAction = "null" =>
               /\ blocks' = blocks
               /\ blockVersion' = blockVersion
               /\ activeBlockType' = activeBlockType
          /\ activeBlockType' = activeBlockType
          /\ Cardinality({k \in DOMAIN blocks \cup DOMAIN blocks' :
                            k \notin DOMAIN blocks \/ k \notin DOMAIN blocks'}) <= 1
          /\ \A k \in DOMAIN blocks \cap DOMAIN blocks' : blocks'[k] = blocks[k]]_vars

\* C25 witness: three frames have run on a store changed by two events: the
\* hotbar selection of stone and one block placed
FramesKeptChanges ==
  /\ clock >= 3 * MAX_DT
  /\ mobileAction = "null"
  /\ nEvents = 2
  /\ activeBlockType = "stone"
  /\ blockVersion = 1
  /\ Cardinality(DOMAIN blocks) = Cardinality(DOMAIN Terrain) + 1

\* the movement of sub is one sub-step whose tentative Y move was refused
\* while the body was not rising
Snapped ==
  /\ OneSubStep
  /\ sub.b.vy <= 0
  /\ PlayerCollides(sub.b.px, sub.b.py + sub.b.vy * sub.dt, sub.b.pz, sub.blocks)

\* the elevation the snap tries first, and the upward shifts made from it
SnapStart ==
  Ceil(sub.b.py + sub.b.vy * sub.dt - HalfBlock + EPS, Metre) * Metre + HalfBlock

Shifts == (sub.out.py - SnapStart) \div Metre

\* C26: the snap loop shifts the player upward at most SnapCap times (a
\* longer run would end in a fatal error, which is no body).
SnapShiftsCapped == Snapped => Shifts <= SnapCap

\* C26 witness: under a tower the loop has shifted the body more than SnapCap
\* times and the movement has ended as any other, grounded on the tower
ShiftedPastCap ==
  /\ Snapped
  /\ Shifts = SnapCap + 1
  /\ sub.out.onGround /\ sub.out.vy = 0
  /\ sub.out.py = (SnapCap + 3) * Metre + HalfBlock

\* the rows of the world with an occupied cell whose top face is above y
RowsAbove(bl, y) == {c[2] : c \in {d \in {keyToPos(k) : k \in DOMAIN bl} :
                                     d[2] * Metre + HalfBlock > y}}

\* C27: the snap loop ends; at the elevation it ends on, the player's AABB
\* overlaps no occupied cell; and it has shifted at most as many times as
\* there are occupied rows above the first elevation, plus the two rows of
\* the player's height.
SnapEndsClear ==
  Snapped =>
    /\ sub.out.py >= SnapStart
    /\ ~InsideBlock(sub.blocks, sub.out.px, sub.out.py, sub.out.pz)
    /\ Shifts <= Cardinality(RowsAbove(sub.blocks, SnapStart)) + 2

\* C27 witness: the loop has ended on a position where the test finds no
\* collision and the AABB overlaps an occupied cell
SnapLeftInside ==
  /\ Snapped
  /\ ~PlayerCollides(sub.out.px, sub.out.py, sub.out.pz, sub.blocks)
  /\ InsideBlock(sub.blocks, sub.out.px, sub.out.py, sub.out.pz)

\* the unit cube of cell c and the box overlap: max > c - 0.5 and
\* min < c + 0.5 on the three axes
CubeMeetsBox(c, box) ==
  /\ box.maxX > c[1] * Metre - HalfBlock /\ box.minX < c[1] * Metre + HalfBlock
  /\ box.maxY > c[2] * Metre - HalfBlock /\ box.minY < c[2] * Metre + HalfBlock
  /\ box.maxZ > c[3] * Metre - HalfBlock /\ box.minZ < c[3] * Metre + HalfBlock

\* the exhaustive test: some occupied cell of the store overlaps the box
StoreMeetsBox(bl, box) ==
  \E k \in DOMAIN bl : \E c \in {keyToPos(k)} : CubeMeetsBox(c, box)

\* C28: collides returns true exactly when some occupied cell of the store
\* satisfies max > b - 0.5 and min < b + 0.5 on the three axes.
CollidesIsExhaustive ==
  sub.out # <<>> => (sub.out[1] <=> StoreMeetsBox(sub.blocks, sub.b))

\* C28 witness: collides has returned false on a box that overlaps the block
OverlapMissed ==
  /\ sub.out = <<FALSE>>
  /\ CubeMeetsBox(BoxCell, sub.b)

\* the box touches a face of the block on some axis: its lower face on the
\* block's upper face or its upper face on the block's lower face
TouchesFace(c, box) ==
  \/ box.minX = c[1] * Metre + HalfBlock \/ box.maxX = c[1] * Metre - HalfBlock
  \/ box.minY = c[2] * Metre + HalfBlock \/ box.maxY = c[2] * Metre - HalfBlock
  \/ box.minZ = c[3] * Metre + HalfBlock \/ box.maxZ = c[3] * Metre - HalfBlock

\* C29: a box with a face exactly on a face of the block, on either side and
\* on any axis, does not collide with it.
TouchingIsClear ==
  (sub.out # <<>> /\ TouchesFace(BoxCell, sub.b)) => sub.out = <<FALSE>>

\* C29 witness: a box standing exactly on the top face of the block, within
\* its sides on X and Z, has been found not to collide
StandsOnFace ==
  /\ sub.out = <<FALSE>>
  /\ sub.b.minY = BoxCell[2] * Metre + HalfBlock
  /\ sub.b.minX = BoxCell[1] * Metre - BoxWidth \div 2
  /\ sub.b.minZ = BoxCell[3] * Metre - BoxWidth \div 2

\* flag a of the keyboard or of the mobile controls is set
Held(a) == keys[a] \/ mobileKeys[a]

\* C30: every frame moves the player as the kinematics does on the six
\* flags (keyboard flag or mobile flag) read at its start: it jumps iff the
\* jump flag of either source is set on the ground; forward and backward
\* held together, by one source or by both, give no movement along the
\* forward axis, and left and right together none along the strafe axis.
IntentMerged ==
  [][clock' # clock =>
       LET k == [a \in KeyActions |-> Held(a)]
           dt == Min(clock' - clock, MAX_DT)
           b == Respawn(SubSteps(BodyStart(dt, CamAfterLook, k), dt, blocks'))
           fwd == FwdXZ[CamAfterLook.yaw + 1]
           rgt == RgtXZ[CamAfterLook.yaw + 1]
           along(axis) == (px' - px) * axis[1] + (pz' - pz) * axis[2]
       IN /\ px' = b.px /\ py' = b.py /\ pz' = b.pz
          /\ vy' = b.vy /\ onGround' = b.onGround
          /\ Played("jump")' <=> (Held("jump") /\ onGround)
          /\ (Held("moveForward") /\ Held("moveBackward")) => along(fwd) = 0
          /\ (Held("moveLeft") /\ Held("moveRight")) => along(rgt) = 0
          /\ (~Held("moveForward") /\ ~Held("moveBackward")) => along(fwd) = 0
          /\ (Held("moveForward") /\ ~Held("moveBackward")) => along(fwd) >= 0
          /\ (Held("moveBackward") /\ ~Held("moveForward")) => along(fwd) <= 0]_vars

\* C30 witness: the joystick alone has moved the player forward while the
\* keyboard held the sneak key, at the sneaking speed
JoystickWalked ==
  /\ mobileKeys["moveForward"] /\ ~keys["moveForward"]
  /\ keys["sneak"] /\ ~mobileKeys["sneak"]
  /\ px = 0 /\ pz = -SneakSpeed * MAX_DT
  /\ clock = LandedClock + MAX_DT + MAX_DT

\* the cell of sample i of the ray cast from the camera by a frame
RayCell(i) ==
  LET dir == WorldDirection(CamAfterLook)
  IN <<Round(camPos[1] + dir[1] * i * RayStep),
       Round(camPos[2] + dir[2] * i * RayStep),
       Round(camPos[3] + dir[3] * i * RayStep)>>

\* the samples of the ray whose cell is occupied
RayHits == {i \in 0..RayLast : TypeAt(RayCell(i)[1], RayCell(i)[2], RayCell(i)[3]) # "none"}

FirstHit == CHOOSE i \in RayHits : \A j \in RayHits : i <= j

\* the keys on which two block mappings differ
Changed(a, b) ==
  {k \in DOMAIN a \cup DOMAIN b : k \notin DOMAIN a \/ k \notin DOMAIN b \/ a[k] # b[k]}

CellKey(c) == posKey(c[1], c[2], c[3])

\* C31: a frame clears the pending mobile action, whether or not the ray
\* hits a block; a frame without one changes no block; a break removes the
\* first occupied cell on the ray and nothing else; a place makes the one
\* addBlock call on the last cell sampled before the hit (which fills it with
\* the active type unless the store finds the player there), and nothing when
\* no block is hit or the first sample is the hit.
MobileActionOnce ==
  [][clock' # clock =>
       /\ mobileAction' = "null"
       /\ (mobileAction = "null" \/ RayHits = {}) =>
            blocks' = blocks /\ blockVersion' = blockVersion
       /\ (mobileAction = "break" /\ RayHits # {}) =>
            /\ Changed(blocks, blocks') = {CellKey(RayCell(FirstHit))}
            /\ CellKey(RayCell(FirstHit)) \notin DOMAIN blocks'
            /\ blockVersion' = blockVersion + 1
       /\ (mobileAction = "place" /\ RayHits # {}) =>
            IF FirstHit = 0 THEN blocks' = blocks /\ blockVersion' = blockVersion
            ELSE LET c == RayCell(FirstHit - 1)
                 IN IF overlapsPlayer(c[1], c[2], c[3], playerPosition)
                    THEN blocks' = blocks /\ blockVersion' = blockVersion
                    ELSE /\ Changed(blocks, blocks') = {CellKey(c)}
                         /\ CellKey(c) \notin DOMAIN blocks
                         /\ blocks'[CellKey(c)] = activeBlockType
                         /\ blockVersion' = blockVersion + 1]_vars

\* C31 witness: a frame has placed a block at (0, 4, -1), the last cell the
\* ray sampled before the block at (0, 4, -2), and the action is cleared
PlacedBeforeHit ==
  /\ Played("place")
  /\ clock > LandedClock
  /\ mobileAction = "null"
  /\ TypeAt(0, 4, -2) # "none" /\ TypeAt(0, 4, -1) = "grass"
  /\ blockVersion = 2

\* an occupied cell lies under the footprint [x - 0.3, x + 0.3] x
\* [z - 0.3, z + 0.3] with its top face at the feet y or at most 0.021 below
SupportedAt(bl, x, y, z) ==
  \E k \in DOMAIN bl : \E c \in {keyToPos(k)} :
    /\ c[1] * Metre + HalfBlock > x - HALF /\ c[1] * Metre - HalfBlock < x + HALF
    /\ c[3] * Metre + HalfBlock > z - HALF /\ c[3] * Metre - HalfBlock < z + HALF
    /\ c[2] * Metre + HalfBlock <= y
    /\ c[2] * Metre + HalfBlock >= y - GroundProbe - EPS

\* C32: whenever a frame ends with Grounded true, an occupied cell lies under
\* the player's footprint at the position the frame ends on, its top face
\* within 0.021 below the feet.
GroundedIsSupported ==
  [][(clock' # clock /\ onGround') => SupportedAt(blocks', px', py', pz')]_vars

\* C32 witness: a frame has ended with Grounded true after the footprint has
\* left the spawn column, 1 m above the cell (0, 1, -1)
GroundedPastEdge ==
  /\ onGround
  /\ clock > LandedClock
  /\ px = 0 /\ py = 2 * Metre + HalfBlock
  /\ pz + HALF <= -HalfBlock
  /\ TypeAt(0, 1, -1) = "grass" /\ TypeAt(0, 2, -1) = "none"

\* C33: at the end of every frame that respawns the player, the player's
\* AABB at the spawn point overlaps no occupied cell.
RespawnPointFree ==
  [][(clock' # clock /\ Played("respawn")') => ~InsideBlock(blocks', px', py', pz')]_vars

\* C33 witness: the player has respawned at (0, 15, 0) inside a block that
\* was added at (0, 15, 0) while the player was 10 m or more below it
RespawnedInside ==
  /\ Played("respawn")
  /\ px = 0 /\ py = 15 * Metre /\ pz = 0
  /\ TypeAt(0, 15, 0) = "grass"
  /\ blockVersion = 1
  /\ playerPosition[2] <= 5 * Metre

\* no occupied cell lies under the player's footprint at or below the feet
VoidBelow ==
  ~\E k \in DOMAIN blocks : \E c \in {keyToPos(k)} :
      /\ c[1] * Metre + HalfBlock > px - HALF /\ c[1] * Metre - HalfBlock < px + HALF
      /\ c[3] * Metre + HalfBlock > pz - HALF /\ c[3] * Metre - HalfBlock < pz + HALF
      /\ c[2] * Metre - HalfBlock <= py

\* a frame has just respawned the player
Respawned ==
  Played("respawn") /\ px = 0 /\ py = 15 * Metre /\ pz = 0

\* no direction flag of either source is set
NoDirection ==
  \A a \in {"moveForward", "moveBackward", "moveLeft", "moveRight"} : ~Held(a)

BackFromVoid ==
  /\ onGround /\ py = Metre + HalfBlock /\ px = 0
  /\ mobileKeys["moveBackward"]
  /\ nEvents = 2

\* the rows of column (x, z) that hold a cell other than tree wood
GroundRows(x, z) ==
  {y \in (-3 - Margin)..(14 + Margin) : TypeAt(x, y, z) \notin {"none", "wood"}}

\* the columns of the footprint without any occupied cell
EmptyColumns ==
  {c \in (-SIZE..SIZE) \X (-SIZE..SIZE) :
     \A y \in (-3 - Margin)..(14 + Margin) : TypeAt(c[1], y, c[2]) = "none"}

\* C35: every column (x, z) of the footprint of the generated world holds an
\* occupied cell, and its highest cell other than wood is grass.
TerrainHasNoHoles ==
  \A x \in -SIZE..SIZE, z \in -SIZE..SIZE :
    LET ys == GroundRows(x, z)
    IN /\ \E y \in (-3 - Margin)..(14 + Margin) : TypeAt(x, y, z) # "none"
       /\ ys # {}
       /\ TypeAt(x, CHOOSE y \in ys : \A w \in ys : w <= y, z) = "grass"

\* C35 witness: the player has landed in the generated world, 80 of whose
\* 1089 columns hold no cell at all, the edge column (-11, -16) of height
\* -5 among them
HolesInFootprint ==
  /\ onGround
  /\ Cardinality(EmptyColumns) = 80
  /\ <<-11, -16>> \in EmptyColumns
  /\ Height(-11, -16) = -5

\* every column that holds a cell has grass as its highest cell other than wood
FilledColumnsGrassed ==
  \A x \in -SIZE..SIZE, z \in -SIZE..SIZE :
    LET ys == GroundRows(x, z)
    IN ys # {} => TypeAt(x, CHOOSE y \in ys : \A w \in ys : w <= y, z) = "grass"

\* C36: in every frame the horizontal velocity computed from the direction
\* flags satisfies vx^2 + vz^2 <= SPEED^2 (the sneaking speed squared while
\* sneak is set), whatever flags are held together, and the player moves
\* horizontally no further than that speed allows in the frame time.
HorizontalSpeedBounded ==
  [][(clock' # clock /\ ~Played("respawn")') =>
       LET dt == Min(clock' - clock, MAX_DT)
           b == BodyStart(dt, CamAfterLook, MergedKeys)
           cap == IF MergedKeys["sneak"] THEN SneakSpeed ELSE SPEED
       IN /\ b.vx * b.vx + b.vz * b.vz <= cap * cap
          /\ (px' - px) * (px' - px) + (pz' - pz) * (pz' - pz)
               <= (cap * dt) * (cap * dt)]_vars

\* C36 witness: with W and D held together the landed player has moved
\* 0.55 m east and 0.55 m north in one frame of 0.1 s, 0.78 m in all
DiagonalStep ==
  /\ keys["moveForward"] /\ keys["moveRight"] /\ ~keys["sneak"]
  /\ ~keys["moveBackward"] /\ ~isMobile
  /\ px = SPEED * MAX_DT /\ pz = -SPEED * MAX_DT
  /\ clock = LandedClock + MAX_DT

\* the keys that set flag a
CodesOf(a) == {code \in DOMAIN CODE_TO_ACTION : CODE_TO_ACTION[code] = a}

\* C37: each keyboard flag is true exactly while a key that sets it is down:
\* W, S, A, D and Space for the movement and jump flags, at least one of
\* ShiftLeft and ShiftRight for the sneak flag.
KeysTrackHeld ==
  \A a \in KeyActions : keys[a] <=> (held \cap CodesOf(a) # {})

\* C37 witness: both Shift keys went down and ShiftLeft went up; ShiftRight is
\* still down and the sneak flag is clear
SneakDropped ==
  /\ held = {"ShiftRight"}
  /\ ~keys["sneak"]
  /\ nEvents = 3

\* the flags of the keys that have a flag of their own track the keys
SingleKeysTrackHeld ==
  \A a \in KeyActions \ {"sneak"} : keys[a] <=> (held \cap CodesOf(a) # {})

====
